---------------------------- MODULE Spec2Model ----------------------------
(***************************************************************************)
(* A model of the ya-negotiator engine: the chain of negotiator            *)
(* components (negotiator-component/src/chain.rs), the scored collection   *)
(* of proposals (src/collection.rs) and the Negotiator actor that ties     *)
(* them together (src/composite.rs).                                       *)
(*                                                                         *)
(* Twelve specifications share the module:                                 *)
(*   SpecChain  one NegotiatorsChain, negotiate_step run one component     *)
(*              call at a time;                                            *)
(*   SpecColl   one ProposalsCollection under arbitrary calls of its       *)
(*              public methods;                                            *)
(*   SpecTies   one ProposalsCollection that is only filled;               *)
(*   Spec       the Negotiator actor with its two collections, its         *)
(*              feedback streams and its two outbound channels;            *)
(*   SpecNames  one NegotiatorsChain that is given components and asked    *)
(*              for them by name;                                          *)
(*   SpecHooks  one NegotiatorsChain whose components are told of events   *)
(*              and fill an offer template;                                *)
(*   SpecMax    the Negotiator actor with a chain of one MaxAgreements;    *)
(*   SpecWrapper  one ComponentMutWrapper and its concurrent callers;      *)
(*   SpecFactory  concurrent RemoteServiceHandle::create_service calls;    *)
(*   SpecServer   one GrpcNegotiatorServer under arbitrary RPCs;           *)
(*   SpecSlots    one MaxAgreements whose hooks are called directly;       *)
(*   SpecProposals  the proposal side of the actor with a timer task that  *)
(*              runs and a feedback stream that is polled.                 *)
(***************************************************************************)
EXTENDS Integers, Sequences, FiniteSets, Bags, TLC

VARIABLES
    \* ---- NegotiatorsChain (SpecChain) ----
    components,          \* number of components of the chain, in insertion order 1..components
    frame,               \* the running negotiate_step call: its locals and its position
    calls,               \* the component calls made by the running negotiate_step, in order
    \* ---- the build ----
    std_bsearch,         \* which slice::binary_search_by the standard library of the build has
    \* ---- one ProposalsCollection (SpecColl) ----
    coll,                \* the collection's fields
    sent,                \* what the last call sent on the feedback channel, in order
    call,                \* the last call: its method and how it ended
    next_id,             \* id of the next entry handed to new_scored
    budget,              \* Limit granted since the goal last became a Limit by replacement
    accepted_total,      \* Accept feedbacks emitted since then, while the goal is a Limit
    \* ---- the Negotiator actor (Spec) ----
    subscriptions,       \* Negotiator::subscriptions
    proposal_agreement,  \* Negotiator::proposal_agreement
    proposals,           \* Negotiator::proposals
    agreements,          \* Negotiator::agreements
    p_feedback,          \* feedback channel of the proposal collection (unconsumed part)
    a_feedback,          \* feedback channel of the agreement collection (unconsumed part)
    proposal_channel,    \* ProposalActions sent by the last step (the receiver is alive)
    agreement_channel,   \* AgreementActions sent by the last step (the receiver is alive)
    inflight,            \* chain evaluations spawned by a handler and not finished (a bag)
    introduced,          \* what the messages handled so far carried, and which agreements were found Ready
    last,                \* the handler step taken last, with what it worked on
    \* ---- the chain's list of components and its other calls (SpecNames, SpecHooks) ----
    overflow_checks,     \* whether the build checks integer overflow (debug) or wraps (release)
    chain,               \* NegotiatorsChainImpl: `components` and `names`
    hook,                \* the last call made on the chain: what it called and returned
    \* ---- an actor whose chain is one MaxAgreements (SpecMax) ----
    active_agreements,   \* MaxAgreements::active_agreements
    terminated,          \* agreement ids of the AgreementFinalized messages handled so far
    \* ---- adapters and plugins (SpecWrapper, SpecFactory, SpecServer) ----
    wrapper,             \* ComponentMutWrapper::inner, the mutex, and the callers of the wrapper
    services,            \* factory.rs SERVICES, the processes spawned and the create_service calls
    server               \* GrpcNegotiatorServer::components, the actors started and the last RPC

chainVars  == <<components, frame, calls>>
collVars   == <<coll, sent, call, next_id, budget, accepted_total>>
engineVars == <<subscriptions, proposal_agreement, proposals, agreements, p_feedback,
                a_feedback, proposal_channel, agreement_channel, inflight, introduced, last>>
namesVars  == <<overflow_checks, chain, hook>>
maxVars    == <<active_agreements, terminated>>
pluginVars == <<wrapper, services, server>>
vars       == <<chainVars, std_bsearch, collVars, engineVars, namesVars, maxVars, pluginVars>>

-----------------------------------------------------------------------------
(* Bounds of the model *)

MaxChain == 3        \* components in a chain
MaxEntries == 3      \* entries handed to one collection by new_scored
MaxTies == 4         \* entries handed to a collection that is only filled
MaxMsgs == 2         \* ReactToProposal and ReactToAgreement messages sent to the actor
MaxEngineChain == 2  \* components in the chain of the actor
MaxLimit == 2        \* Limit of the agreement collection that RequestAgreements may build up
MaxGoal == 2         \* size of a goal

-----------------------------------------------------------------------------
(* Values *)

\* Contents of a ProposalView (properties and constraints), abstracted.
Contents == {"c0", "c1"}
\* Proposal ids.
ProposalIds == {"p1", "p2"}
\* Proposal states (ya_client_model::market::proposal::State).
States == {"Initial", "Draft", "Accepted"}
\* f64 values: the integers NegInf < Finite < PosInf, and NaN beside them.
NegInf == -9
PosInf == 9
NaN == 99
Finite == {0, 1}
\* A Score document (JSON), by its /final-score entry: <<>> when there is no
\* number there, <<x>> when it is the number x.  JSON numbers are finite.
ScoreDocs == {<<>>, <<1>>}
ScoreDefault == <<>>
\* Rejection reasons given by components.
Messages == {"m1", "m2"}

ProposalViews == [id : ProposalIds, content : Contents, state : States]

\* What a component's negotiate_step returns: Ok(NegotiationResult) or an error.
NegotiationResults ==
    [kind : {"Ready", "Negotiating"}, proposal : Contents, score : ScoreDocs]
        \cup [kind : {"Reject"}, reason : Messages, is_final : BOOLEAN]
ComponentReturns == NegotiationResults \cup {[kind |-> "Err"]}

-----------------------------------------------------------------------------
(* NegotiatorsChain::negotiate_step, chain.rs 110-161 *)

NoReturn == [kind |-> "None"]

\* A loop body that takes Negotiating for Ready.
NegotiateLoopBodyAllReady(acc, result) ==
    CASE result.kind = "Err" -> [acc EXCEPT !.ret = [kind |-> "Err"]]
      [] result.kind \in {"Ready", "Negotiating"} ->
            [acc EXCEPT !.template = result.proposal, !.score = result.score]
      [] result.kind = "Reject" ->
            [acc EXCEPT !.ret = [kind |-> "Reject", reason |-> result.reason,
                                 is_final |-> result.is_final]]

\* A loop body that goes on to the next component after a Reject and returns
\* the Reject at the end.
NegotiateLoopBodyNoReturn(acc, result) ==
    CASE result.kind = "Err" -> [acc EXCEPT !.ret = [kind |-> "Err"]]
      [] result.kind = "Ready" ->
            [acc EXCEPT !.template = result.proposal, !.score = result.score]
      [] result.kind = "Negotiating" ->
            [acc EXCEPT !.all_ready = FALSE,
                        !.template = result.proposal, !.score = result.score]
      [] result.kind = "Reject" -> acc

\* One iteration of the loop over the components: `acc` holds the locals
\* (template, score, all_ready) and `ret` the early return, if any.
NegotiateLoopBody(acc, result) ==
    CASE result.kind = "Err" ->
            [acc EXCEPT !.ret = [kind |-> "Err"]]
      [] result.kind = "Ready" ->
            [acc EXCEPT !.template = result.proposal, !.score = result.score]
      [] result.kind = "Negotiating" ->
            [acc EXCEPT !.all_ready = FALSE,
                        !.template = result.proposal, !.score = result.score]
      [] result.kind = "Reject" ->
            [acc EXCEPT !.ret = [kind |-> "Reject", reason |-> result.reason,
                                 is_final |-> result.is_final]]

\* The value returned after the loop.
NegotiateFinal(acc) ==
    IF acc.all_ready
    THEN [kind |-> "Ready", proposal |-> acc.template, score |-> acc.score]
    ELSE [kind |-> "Negotiating", proposal |-> acc.template, score |-> acc.score]

NegotiateLocals(template, score) ==
    [template |-> template, score |-> score, all_ready |-> TRUE, ret |-> NoReturn]

\* negotiate_step as a function of what the components return when called:
\* returns[i] is component i's answer (read only if component i is called).
RECURSIVE NegotiateFrom(_, _, _)
NegotiateFrom(acc, returns, i) ==
    IF acc.ret # NoReturn THEN acc.ret
    ELSE IF i > Len(returns) THEN NegotiateFinal(acc)
    ELSE NegotiateFrom(NegotiateLoopBody(acc, returns[i]), returns, i + 1)

negotiate_step(returns, template, score) ==
    NegotiateFrom(NegotiateLocals(template, score), returns, 1)

IdleFrame == [pc |-> "idle"]

\* What the callers of negotiate_step pass in.
TheirInputs == {[id |-> "p1", content |-> "c0", state |-> "Initial"],
                [id |-> "p2", content |-> "c1", state |-> "Draft"]}
\* What the components of the chain under study return.
ChainReturns == {r \in ComponentReturns : r.kind \in {"Ready", "Negotiating"} => r.score \in {<<>>, <<1>>}}

\* A caller invokes negotiate_step(incoming_proposal, template, score).
NegotiateStepBegin ==
    /\ frame.pc \in {"idle", "done"}
    /\ \E their \in TheirInputs, template \in Contents, score \in {ScoreDefault, <<1>>} :
          frame' = [pc |-> "loop", i |-> 1, their |-> their,
                    arg_template |-> template, arg_score |-> score,
                    acc |-> NegotiateLocals(template, score)]
    /\ calls' = <<>>
    /\ UNCHANGED <<components, std_bsearch, collVars, engineVars,
                   namesVars, maxVars, pluginVars>>

\* The loop calls the next component and matches on what it returns.
NegotiateStepCall ==
    /\ frame.pc = "loop"
    /\ frame.acc.ret = NoReturn
    /\ frame.i <= components
    /\ \E result \in ChainReturns :
          /\ calls' = Append(calls, [component |-> frame.i, their |-> frame.their,
                                     template |-> frame.acc.template,
                                     score |-> frame.acc.score, result |-> result])
          /\ frame' = [frame EXCEPT !.acc = NegotiateLoopBody(frame.acc, result),
                                    !.i = frame.i + 1]
    /\ UNCHANGED <<components, std_bsearch, collVars, engineVars,
                   namesVars, maxVars, pluginVars>>

\* `?` or `return` inside the loop, or the end of the loop.
NegotiateStepReturn ==
    /\ frame.pc = "loop"
    /\ frame.acc.ret # NoReturn \/ frame.i > components
    /\ frame' = [pc |-> "done", their |-> frame.their,
                 arg_template |-> frame.arg_template, arg_score |-> frame.arg_score,
                 result |-> IF frame.acc.ret # NoReturn THEN frame.acc.ret
                            ELSE NegotiateFinal(frame.acc)]
    /\ UNCHANGED <<components, calls, std_bsearch, collVars, engineVars,
                   namesVars, maxVars, pluginVars>>

-----------------------------------------------------------------------------
(* f64 and slice::binary_search_by, as called at collection.rs 148-154, 231-237 *)

\* An is_nan that never sees a NaN.
IsNaNNever(x) == FALSE

IsNaN(x) == x = NaN

Min(a, b) == IF a <= b THEN a ELSE b

\* f64::partial_cmp: None when either side is NaN.
PartialCmp(a, b) ==
    IF IsNaN(a) \/ IsNaN(b) THEN "None"
    ELSE IF a < b THEN "Less"
    ELSE IF a > b THEN "Greater"
    ELSE "Equal"

\* The closure given to binary_search_by: new.score.partial_cmp(&proposal.score);
\* .unwrap() panics on None.  `i` is the 0-based index of the probed element.
Probe(v, score, i) == PartialCmp(score, v[i + 1].score)

Found(i)    == [kind |-> "Ok", idx |-> i]
NotFound(i) == [kind |-> "Err", idx |-> i]
Panicked    == [kind |-> "Panic"]

\* Rust 1.52 to 1.81: the loop returns at the first probe that compares Equal.
RECURSIVE SearchEarlyReturn(_, _, _, _)
SearchEarlyReturn(v, score, left, right) ==
    IF left < right
    THEN LET size == right - left
             mid  == left + size \div 2
             cmp  == Probe(v, score, mid)
         IN  CASE cmp = "None"    -> Panicked
               [] cmp = "Less"    -> SearchEarlyReturn(v, score, mid + 1, right)
               [] cmp = "Greater" -> SearchEarlyReturn(v, score, left, mid)
               [] cmp = "Equal"   -> Found(mid)
    ELSE NotFound(left)

\* Rust up to 1.51 and from 1.82: the loop halves the range without an early
\* return and compares once more at the end.
RECURSIVE SearchBranchless(_, _, _, _)
SearchBranchless(v, score, base, size) ==
    IF size > 1
    THEN LET half == size \div 2
             mid  == base + half
             cmp  == Probe(v, score, mid)
         IN  IF cmp = "None" THEN Panicked
             ELSE SearchBranchless(v, score, IF cmp = "Greater" THEN base ELSE mid,
                                   size - half)
    ELSE LET cmp == Probe(v, score, base)
         IN  CASE cmp = "None"    -> Panicked
               [] cmp = "Equal"   -> Found(base)
               [] cmp = "Less"    -> NotFound(base + 1)
               [] cmp = "Greater" -> NotFound(base)

StdBuilds == {"early_return", "branchless"}

binary_search_by(v, score) ==
    IF std_bsearch = "early_return"
    THEN SearchEarlyReturn(v, score, 0, Len(v))
    ELSE IF Len(v) = 0 THEN NotFound(0)
    ELSE SearchBranchless(v, score, 0, Len(v))

\* Vec::insert(idx, e) with a 0-based idx.
VecInsert(v, idx, e) == SubSeq(v, 1, idx) \o <<e>> \o SubSeq(v, idx + 1, Len(v))

\* An insert that takes the index of a failed search for a match.
SortedInsertOffByOne(v, new) ==
    LET found == binary_search_by(v, new.score)
    IN  IF found.kind = "Panic" THEN [vec |-> v, panic |-> TRUE]
        ELSE [vec |-> VecInsert(v, Min(found.idx + 1, Len(v)), new), panic |-> FALSE]

\* "Keep vector sorted": the match on the search result and the insert.
\* The vector comes back unchanged, with panic set, when the closure panics.
SortedInsert(v, new) ==
    LET found == binary_search_by(v, new.score)
    IN  CASE found.kind = "Panic" -> [vec |-> v, panic |-> TRUE]
          [] found.kind = "Ok"    -> [vec |-> VecInsert(v, found.idx + 1, new), panic |-> FALSE]
          [] found.kind = "Err"   -> [vec |-> VecInsert(v, found.idx, new), panic |-> FALSE]

-----------------------------------------------------------------------------
(* ProposalsCollection, collection.rs 78-280 *)

\* usize::MAX, the collect_amount of a collection configured without one;
\* no vector of the model grows that long.
UsizeMax == 1000000

Limit(n) == [kind |-> "Limit", n |-> n]
Batch(n) == [kind |-> "Batch", n |-> n]

Decide(reason) == [action |-> "Decide", reason |-> reason]
Accept(id)     == [action |-> "Accept", id |-> id]
Reject(id, reason, is_final) ==
    [action |-> "Reject", id |-> id, reason |-> reason, is_final |-> is_final]

\* An abort that leaves the task running.
AbortForgotten(task) == task

\* AbortHandle::abort on the task behind the handle: a task that has not
\* finished is dropped, a finished one is left as it is.
Abort(task) == IF task = "pending" THEN "aborted" ELSE task

\* A spawn_collect_period that spawns the task for a new collection only.
SpawnCollectPeriodOnce(c) ==
    IF c.timer = "none" THEN [c EXCEPT !.timer = "pending"] ELSE c

\* spawn_collect_period: `timer` is the state of the task behind
\* collect_timeout_handle ("none" while the handle is None) and `detached`
\* counts the tasks still pending whose handle was given up.
spawn_collect_period(c) ==
    LET old == IF c.timer = "none" THEN "none" ELSE Abort(c.timer)
    IN  [c EXCEPT !.timer = "pending",
                  !.detached = c.detached + (IF old = "pending" THEN 1 ELSE 0)]

\* ProposalsCollection::new
NewCollection(config) ==
    spawn_collect_period(
        [awaiting |-> <<>>, rejected |-> <<>>,
         collect_period |-> IF config.collect_period = "None" THEN "MAX" ELSE "finite",
         collect_amount |-> IF config.collect_amount = <<>> THEN UsizeMax
                            ELSE config.collect_amount[1],
         timer |-> "none", detached |-> 0,
         goal |-> config.goal,
         panicked |-> FALSE])

\* A set_goal that always replaces the goal.
SetGoalReplace(c, goal) == [c EXCEPT !.goal = goal]

\* set_goal
set_goal(c, goal) ==
    IF c.goal.kind = "Limit" /\ goal.kind = "Limit"
    THEN [c EXCEPT !.goal = Limit(goal.n + c.goal.n)]
    ELSE [c EXCEPT !.goal = goal]

\* A new_scored that asks for a decision after every insertion.
NewScoredEager(c, new) ==
    IF IsNaN(new.score)
    THEN [coll |-> c, sent |-> <<>>, err |-> TRUE]
    ELSE LET ins == SortedInsert(c.awaiting, new)
         IN  IF ins.panic
             THEN [coll |-> [c EXCEPT !.panicked = TRUE], sent |-> <<>>, err |-> TRUE]
             ELSE [coll |-> [c EXCEPT !.awaiting = ins.vec],
                   sent |-> <<Decide("GoalReached")>>,
                   err  |-> FALSE]

\* new_scored: the collection afterwards, what was sent on the feedback
\* channel, and whether the call returned an error.
new_scored(c, new) ==
    IF IsNaN(new.score)
    THEN [coll |-> c, sent |-> <<>>, err |-> TRUE]
    ELSE LET ins == SortedInsert(c.awaiting, new)
         IN  IF ins.panic
             THEN [coll |-> [c EXCEPT !.panicked = TRUE], sent |-> <<>>, err |-> TRUE]
             ELSE [coll |-> [c EXCEPT !.awaiting = ins.vec],
                   sent |-> IF Len(ins.vec) >= c.collect_amount
                            THEN <<Decide("GoalReached")>> ELSE <<>>,
                   err  |-> FALSE]

\* add_rejected; its error is dropped by the caller (.ok()).
add_rejected(c, new) ==
    IF IsNaN(new.score) THEN c
    ELSE LET ins == SortedInsert(c.rejected, new)
         IN  IF ins.panic THEN [c EXCEPT !.panicked = TRUE]
             ELSE [c EXCEPT !.rejected = ins.vec]

RECURSIVE AddAllRejected(_, _, _)
AddAllRejected(c, rejected, i) ==
    IF i > Len(rejected) THEN c
    ELSE AddAllRejected(add_rejected(c, rejected[i]), rejected, i + 1)

\* A decide that accepts whatever is awaiting.
DecideCountAll(c) == Len(c.awaiting)

\* A decide that forgets to take the accepted proposals off a Limit.
DecideGoalUnchanged(c) == c.goal

\* A decide that takes the accepted proposals off a Batch as well.
DecideGoalSpent(c) ==
    [kind |-> c.goal.kind, n |-> c.goal.n - Min(c.goal.n, Len(c.awaiting))]

\* The number of proposals this decide accepts, and the goal it leaves.
DecideCount(c) == Min(c.goal.n, Len(c.awaiting))

DecideGoal(c) ==
    IF c.goal.kind = "Limit" THEN Limit(c.goal.n - DecideCount(c)) ELSE c.goal

\* A decide that answers the rejected proposals before the accepted ones.
DecideRejectsFirst(c) ==
    LET goal     == DecideCount(c)
        accepted == SubSeq(c.awaiting, 1, goal)
        rejected == SubSeq(c.awaiting, goal + 1, Len(c.awaiting))
        drained  == [c EXCEPT !.goal = DecideGoal(c), !.awaiting = <<>>]
    IN  [coll |-> spawn_collect_period(AddAllRejected(drained, rejected, 1)),
         sent |-> [i \in 1..Len(rejected) |->
                         Reject(rejected[i].id, "Node is busy.", FALSE)]
                  \o [i \in 1..Len(accepted) |-> Accept(accepted[i].id)]]

\* decide: the collection afterwards and what was sent on the feedback channel.
decide(c) ==
    LET goal     == DecideCount(c)
        accepted == SubSeq(c.awaiting, 1, goal)
        rejected == SubSeq(c.awaiting, goal + 1, Len(c.awaiting))
        drained  == [c EXCEPT !.goal = DecideGoal(c), !.awaiting = <<>>]
    IN  [coll |-> spawn_collect_period(AddAllRejected(drained, rejected, 1)),
         sent |-> [i \in 1..Len(accepted) |-> Accept(accepted[i].id)]
                  \o [i \in 1..Len(rejected) |->
                         Reject(rejected[i].id, "Node is busy.", FALSE)]]

\* The task spawned by spawn_collect_period: after collect_period it sends
\* Decide(TimeElapsed).  A collection without collect_period sleeps Duration::MAX.
TimerCanFire(c) == c.timer = "pending" /\ c.collect_period = "finite"
TimerFired(c)   == [c EXCEPT !.timer = "fired"]

-----------------------------------------------------------------------------
(* One ProposalsCollection driven through its public methods *)

\* CollectionConfig: collect_period and collect_amount are Options
\* (collect_amount <<>> is None, <<n>> is Some(n)).
Goals == {Limit(n) : n \in 0..MaxGoal} \cup {Batch(n) : n \in 0..MaxGoal}
Configs == [collect_period : {"None", "Some"}, collect_amount : {<<>>, <<2>>}, goal : Goals]

\* Scores a caller may hand to new_scored.
ScoreInputs == Finite \cup {NegInf, PosInf, NaN}

Accepts(s) == Cardinality({i \in 1..Len(s) : s[i].action = "Accept"})

NoCall == [method |-> "new"]

NewScoredUpTo(entries) ==
    /\ next_id <= entries
    /\ \E score \in ScoreInputs :
          LET r == new_scored(coll, [id |-> next_id, score |-> score])
          IN  /\ coll' = r.coll
              /\ sent' = r.sent
              /\ call' = [method |-> "new_scored", err |-> r.err]
              /\ next_id' = IF r.err THEN next_id ELSE next_id + 1
    /\ UNCHANGED <<budget, accepted_total, chainVars, std_bsearch, engineVars,
                   namesVars, maxVars, pluginVars>>

CollNewScored == NewScoredUpTo(MaxEntries)

CollDecide ==
    /\ LET r == decide(coll)
       IN  /\ coll' = r.coll
           /\ sent' = r.sent
           /\ accepted_total' = IF coll.goal.kind = "Limit"
                                THEN accepted_total + Accepts(r.sent) ELSE accepted_total
    /\ call' = [method |-> "decide"]
    /\ UNCHANGED <<next_id, budget, chainVars, std_bsearch, engineVars,
                   namesVars, maxVars, pluginVars>>

CollSetGoal ==
    /\ \E goal \in Goals :
          /\ set_goal(coll, goal).goal.n <= MaxGoal
          /\ coll' = set_goal(coll, goal)
          /\ call' = [method |-> "set_goal"]
          /\ IF coll.goal.kind = "Limit" /\ goal.kind = "Limit"
             THEN /\ budget' = budget + goal.n
                  /\ UNCHANGED accepted_total
             ELSE /\ budget' = IF goal.kind = "Limit" THEN goal.n ELSE 0
                  /\ accepted_total' = 0
    /\ sent' = <<>>
    /\ UNCHANGED <<next_id, chainVars, std_bsearch, engineVars,
                   namesVars, maxVars, pluginVars>>

CollTimer ==
    /\ TimerCanFire(coll)
    /\ coll' = TimerFired(coll)
    /\ sent' = <<Decide("TimeElapsed")>>
    /\ call' = [method |-> "timer"]
    /\ UNCHANGED <<next_id, budget, accepted_total, chainVars, std_bsearch, engineVars,
                   namesVars, maxVars, pluginVars>>

-----------------------------------------------------------------------------
(* The Negotiator actor, composite.rs *)

AgreementIds == {"a1", "a2"}
\* /demand/demandId and /offer/offerId of an agreement; ids are strings, so a
\* demand id may be the id of a proposal.
DemandIds == {"d1", "p1"}
OfferIds == {"o1"}
SubscriptionIds == {"s1", "s2"}
Keys == ProposalIds \cup AgreementIds \cup DemandIds \cup OfferIds

\* A HashMap<String, String> as a function on all keys; "none" where the map
\* has no entry.
EmptyMap == [k \in Keys |-> "none"]
MapInsert(m, k, v) == [m EXCEPT ![k] = v]
MapRemove(m, k) == [m EXCEPT ![k] = "none"]

\* What the components of the actor's chain return.
EngineReturns ==
    [kind : {"Ready"}, proposal : {"c1"}, score : ScoreDocs]
        \cup [kind : {"Negotiating"}, proposal : Contents, score : {ScoreDefault}]
        \cup [kind : {"Reject"}, reason : {"m1"}, is_final : BOOLEAN]
        \cup {[kind |-> "Err"]}

\* What components.negotiate_step(&their, template, Score::default()) can
\* return for a chain of up to MaxEngineChain such components.
ChainOutcomes ==
    [template \in Contents |->
        {negotiate_step(returns, template, ScoreDefault) :
            returns \in UNION {[1..n -> EngineReturns] : n \in 0..MaxEngineChain}}]

\* score.pointer_typed("/final-score").unwrap_or(0.0)
FinalScore(score) == IF score = <<>> THEN 0 ELSE score[1]

\* RejectReason::final_flag: the reason with its
\* golem.proposal.rejection.is-final entry.
FinalFlag(message, flag) == [message |-> message, is_final |-> <<flag>>]
\* RejectReason::new(message).into(): a reason with no such entry.
PlainReason(message) == [message |-> message, is_final |-> <<>>]

\* A CounterProposal that sends our previous proposal back.
CounterProposalStale(subscription_id, id, proposal) ==
    [action |-> "CounterProposal", subscription_id |-> subscription_id, id |-> id,
     proposal |-> "c0"]

\* An AcceptProposal that names the subscription where the proposal id belongs.
AcceptProposalMisaddressed(subscription_id, id) ==
    [action |-> "AcceptProposal", subscription_id |-> subscription_id,
     id |-> subscription_id]

CounterProposal(subscription_id, id, proposal) ==
    [action |-> "CounterProposal", subscription_id |-> subscription_id, id |-> id,
     proposal |-> proposal]
AcceptProposal(subscription_id, id) ==
    [action |-> "AcceptProposal", subscription_id |-> subscription_id, id |-> id]
RejectProposal(subscription_id, id, reason) ==
    [action |-> "RejectProposal", subscription_id |-> subscription_id, id |-> id,
     reason |-> reason]
ApproveAgreement(subscription_id, id) ==
    [action |-> "ApproveAgreement", subscription_id |-> subscription_id, id |-> id]
RejectAgreement(subscription_id, id, reason) ==
    [action |-> "RejectAgreement", subscription_id |-> subscription_id, id |-> id,
     reason |-> reason]

\* A process_proposal_result that collects every proposal the chain finds
\* Ready, whatever its state.
ProcessProposalResultAnyState(result, subscription_id, their) ==
    LET quiet == [proposals |-> proposals, feedback |-> <<>>, out |-> <<>>]
    IN  CASE result.kind = "Err" -> quiet
          [] result.kind = "Reject" ->
                [quiet EXCEPT !.out = <<RejectProposal(subscription_id, their.id,
                                            FinalFlag(result.reason, result.is_final))>>]
          [] result.kind = "Ready" ->
                LET r == new_scored(proposals, [id |-> their.id, state |-> their.state,
                                                score |-> FinalScore(result.score)])
                IN  [proposals |-> r.coll, feedback |-> r.sent, out |-> <<>>]
          [] result.kind = "Negotiating" ->
                [quiet EXCEPT !.out = <<CounterProposal(subscription_id, their.id,
                                                        result.proposal)>>]

\* process_proposal_result: the proposal collection afterwards, what it sent
\* on its feedback channel and what went out on proposal_channel.
process_proposal_result(result, subscription_id, their) ==
    LET quiet == [proposals |-> proposals, feedback |-> <<>>, out |-> <<>>]
    IN  CASE result.kind = "Err" -> quiet
          [] result.kind = "Reject" ->
                [quiet EXCEPT !.out = <<RejectProposal(subscription_id, their.id,
                                            FinalFlag(result.reason, result.is_final))>>]
          [] result.kind = "Ready" /\ their.state = "Initial" ->
                [quiet EXCEPT !.out = <<CounterProposal(subscription_id, their.id,
                                                        result.proposal)>>]
          [] result.kind = "Ready" /\ their.state = "Draft" ->
                LET r == new_scored(proposals, [id |-> their.id, state |-> their.state,
                                                score |-> FinalScore(result.score)])
                IN  [proposals |-> r.coll, feedback |-> r.sent, out |-> <<>>]
          [] result.kind = "Ready" /\ their.state \notin {"Initial", "Draft"} -> quiet
          [] result.kind = "Negotiating" ->
                [quiet EXCEPT !.out = <<CounterProposal(subscription_id, their.id,
                                                        result.proposal)>>]

\* process_agreement_result: the same for the agreement collection and
\* agreement_channel.
process_agreement_result(result, subscription_id, agreement_id, their) ==
    LET quiet == [agreements |-> agreements, feedback |-> <<>>, out |-> <<>>]
    IN  CASE result.kind = "Err" -> quiet
          [] result.kind = "Ready" ->
                LET r == new_scored(agreements, [id |-> their.id, state |-> their.state,
                                                 score |-> FinalScore(result.score)])
                IN  [agreements |-> r.coll, feedback |-> r.sent, out |-> <<>>]
          [] result.kind = "Reject" ->
                [quiet EXCEPT !.out = <<RejectAgreement(subscription_id, agreement_id,
                                            FinalFlag(result.reason, result.is_final))>>]
          [] result.kind = "Negotiating" ->
                [quiet EXCEPT !.out = <<RejectAgreement(subscription_id, agreement_id,
                                            FinalFlag("Negotiations aren't finished.", TRUE))>>]

\* The futures spawned by the handlers and not finished yet are a bag: they
\* finish in any order.
Spawn(futures, e) == futures (+) SetToBag({e})
Finish(futures, e) == futures (-) SetToBag({e})

\* Subscription ids and agreement ids are names the caller makes up: the first
\* message is the one whose subscription is called "s1", the first agreement is
\* the one called "a1".
SubscriptionChoice == IF introduced.count = 0 THEN {"s1"} ELSE SubscriptionIds
AgreementChoice == IF introduced.agreements = {} THEN {"a1"} ELSE AgreementIds

\* Handler<ReactToProposal>::handle up to the spawn of the future.  A proposal
\* that ProposalView::try_from refuses makes the future fail before the chain
\* is called: nothing else happens for it.
ReactToProposal ==
    /\ introduced.count < MaxMsgs
    /\ \E subscription_id \in SubscriptionChoice, id \in ProposalIds, state \in States,
          convertible \in BOOLEAN :
          /\ subscriptions' = MapInsert(subscriptions, id, subscription_id)
          /\ inflight' = IF convertible
                         THEN Spawn(inflight, [kind |-> "proposal",
                                               subscription_id |-> subscription_id,
                                               their |-> [id |-> id, state |-> state]])
                         ELSE inflight
          /\ introduced' = [introduced EXCEPT
                                !.count = @ + 1,
                                !.proposals = @ \cup {id},
                                !.supplied = @ \cup {<<id, subscription_id>>},
                                !.drafts = @ \cup (IF convertible /\ state = "Draft"
                                                   THEN {id} ELSE {})]
          /\ last' = [op |-> "ReactToProposal"]
    /\ proposal_channel' = <<>>
    /\ agreement_channel' = <<>>
    /\ UNCHANGED <<proposal_agreement, proposals, agreements, p_feedback, a_feedback,
                   chainVars, std_bsearch, collVars,
                   namesVars, maxVars, pluginVars>>

\* The future of a ReactToProposal finishes: the chain has returned one of
\* `outcomes` and the actor runs process_proposal_result.
ProposalEvaluatedBy(outcomes) ==
    /\ \E e \in BagToSet(inflight) :
          /\ e.kind = "proposal"
          /\ \E result \in outcomes :
                LET r == process_proposal_result(result, e.subscription_id, e.their)
                IN  /\ proposals' = r.proposals
                    /\ p_feedback' = p_feedback \o r.feedback
                    /\ proposal_channel' = r.out
                    /\ last' = [op |-> "process_proposal_result", id |-> e.their.id,
                                state |-> e.their.state,
                                subscription_id |-> e.subscription_id, result |-> result]
          /\ inflight' = Finish(inflight, e)
    /\ agreement_channel' = <<>>
    /\ UNCHANGED <<subscriptions, proposal_agreement, agreements, a_feedback, introduced,
                   chainVars, std_bsearch, collVars,
                   namesVars, maxVars, pluginVars>>

\* The same for a chain of any components.  our_prev_proposal has content "c0".
ProposalEvaluated == ProposalEvaluatedBy(ChainOutcomes["c0"])

\* Handler<ReactToAgreement>::handle up to the spawn of the future; an
\* agreement that to_proposal_views refuses is answered with an error at once.
ReactToAgreement ==
    /\ introduced.count < MaxMsgs
    /\ \E subscription_id \in SubscriptionChoice, agreement_id \in AgreementChoice,
          demand_id \in DemandIds, offer_id \in OfferIds, convertible \in BOOLEAN :
          /\ IF convertible
             THEN /\ proposal_agreement' =
                        MapInsert(MapInsert(proposal_agreement, demand_id, agreement_id),
                                  offer_id, agreement_id)
                  /\ subscriptions' = MapInsert(subscriptions, agreement_id, subscription_id)
                  /\ inflight' = Spawn(inflight,
                        [kind |-> "agreement", subscription_id |-> subscription_id,
                         agreement_id |-> agreement_id,
                         their |-> [id |-> demand_id, state |-> "Accepted"]])
                  /\ introduced' = [introduced EXCEPT !.count = @ + 1,
                                        !.agreements = @ \cup {agreement_id},
                                        !.supplied = @ \cup {<<agreement_id,
                                                               subscription_id>>}]
             ELSE UNCHANGED <<proposal_agreement, subscriptions, inflight, introduced>>
          /\ last' = [op |-> "ReactToAgreement"]
    /\ proposal_channel' = <<>>
    /\ agreement_channel' = <<>>
    /\ UNCHANGED <<proposals, agreements, p_feedback, a_feedback,
                   chainVars, std_bsearch, collVars,
                   namesVars, maxVars, pluginVars>>

\* The future of a ReactToAgreement finishes: the chain has returned one of
\* `outcomes` and the actor runs process_agreement_result.
AgreementEvaluatedBy(outcomes) ==
    /\ \E e \in BagToSet(inflight) :
          /\ e.kind = "agreement"
          /\ \E result \in outcomes :
                LET r == process_agreement_result(result, e.subscription_id,
                                                  e.agreement_id, e.their)
                IN  /\ agreements' = r.agreements
                    /\ a_feedback' = a_feedback \o r.feedback
                    /\ agreement_channel' = r.out
                    /\ last' = [op |-> "process_agreement_result", id |-> e.agreement_id,
                                their |-> e.their.id,
                                subscription_id |-> e.subscription_id, result |-> result]
                    /\ introduced' = [introduced EXCEPT
                            !.ready = @ \cup (IF result.kind = "Ready"
                                              THEN {e.agreement_id} ELSE {}),
                            !.created = @ \cup (IF result.kind = "Ready"
                                                THEN {<<e.their.id, e.agreement_id>>}
                                                ELSE {})]
          /\ inflight' = Finish(inflight, e)
    /\ proposal_channel' = <<>>
    /\ UNCHANGED <<subscriptions, proposal_agreement, proposals, p_feedback,
                   chainVars, std_bsearch, collVars,
                   namesVars, maxVars, pluginVars>>

\* The same for a chain of any components.  The template is the offer side
\* of the agreement, of content "c0".
AgreementEvaluated == AgreementEvaluatedBy(ChainOutcomes["c0"])

\* Handler<RequestAgreements>
RequestAgreements ==
    /\ \E n \in 1..MaxLimit :
          /\ set_goal(agreements, Limit(n)).goal.n <= MaxLimit
          /\ agreements' = set_goal(agreements, Limit(n))
          /\ last' = [op |-> "RequestAgreements", n |-> n]
    /\ proposal_channel' = <<>>
    /\ agreement_channel' = <<>>
    /\ UNCHANGED <<subscriptions, proposal_agreement, proposals, p_feedback, a_feedback,
                   inflight, introduced, chainVars, std_bsearch, collVars,
                   namesVars, maxVars, pluginVars>>

\* StreamHandler<Feedback>::handle for CollectionType::Proposal: the proposal
\* collection afterwards, what it sent on its feedback channel and what went
\* out on proposal_channel.
proposal_feedback(item) ==
    LET quiet == [proposals |-> proposals, feedback |-> <<>>, out |-> <<>>]
    IN  CASE item.action = "Decide" ->
                LET r == decide(proposals)
                IN  [proposals |-> r.coll, feedback |-> r.sent, out |-> <<>>]
          [] item.action = "Accept" ->
                IF subscriptions[item.id] = "none" THEN quiet
                ELSE [quiet EXCEPT !.out =
                        <<AcceptProposal(subscriptions[item.id], item.id)>>]
          [] item.action = "Reject" ->
                IF subscriptions[item.id] = "none" THEN quiet
                ELSE [quiet EXCEPT !.out =
                        <<RejectProposal(subscriptions[item.id], item.id,
                                         PlainReason(item.reason))>>]

\* StreamHandler<Feedback>::handle for CollectionType::Agreement.
agreement_feedback(item) ==
    LET quiet == [agreements |-> agreements, feedback |-> <<>>,
                  proposal_agreement |-> proposal_agreement, out |-> <<>>]
    IN  CASE item.action = "Decide" ->
                LET r == decide(agreements)
                IN  [quiet EXCEPT !.agreements = r.coll, !.feedback = r.sent]
          [] item.action = "Accept" ->
                LET proposal_id == item.id
                    id == proposal_agreement[proposal_id]
                IN  IF id = "none" THEN quiet
                    ELSE IF subscriptions[id] = "none" THEN quiet
                    ELSE [quiet EXCEPT
                            !.proposal_agreement = MapRemove(proposal_agreement, proposal_id),
                            !.out = <<ApproveAgreement(subscriptions[id], id)>>]
          [] item.action = "Reject" ->
                LET proposal_id == item.id
                    agreement_id == proposal_agreement[proposal_id]
                IN  IF agreement_id = "none" THEN quiet
                    ELSE IF subscriptions[item.id] = "none" THEN quiet
                    ELSE [quiet EXCEPT
                            !.proposal_agreement =
                                IF item.is_final
                                THEN MapRemove(proposal_agreement, proposal_id)
                                ELSE proposal_agreement,
                            !.out = <<RejectAgreement(subscriptions[item.id], agreement_id,
                                                      PlainReason(item.reason))>>]

\* The actor takes the next item of the proposal collection's feedback stream.
ProposalFeedback ==
    /\ p_feedback # <<>>
    /\ LET r == proposal_feedback(Head(p_feedback))
       IN  /\ proposals' = r.proposals
           /\ p_feedback' = Tail(p_feedback) \o r.feedback
           /\ proposal_channel' = r.out
    /\ agreement_channel' = <<>>
    /\ last' = [op |-> "proposal_feedback"]
    /\ UNCHANGED <<subscriptions, proposal_agreement, agreements, a_feedback, inflight,
                   introduced, chainVars, std_bsearch, collVars,
                   namesVars, maxVars, pluginVars>>

\* The actor takes the next item of the agreement collection's feedback stream.
AgreementFeedback ==
    /\ a_feedback # <<>>
    /\ LET r == agreement_feedback(Head(a_feedback))
       IN  /\ agreements' = r.agreements
           /\ a_feedback' = Tail(a_feedback) \o r.feedback
           /\ proposal_agreement' = r.proposal_agreement
           /\ agreement_channel' = r.out
    /\ proposal_channel' = <<>>
    /\ last' = [op |-> "agreement_feedback"]
    /\ UNCHANGED <<subscriptions, proposals, p_feedback, inflight,
                   introduced, chainVars, std_bsearch, collVars,
                   namesVars, maxVars, pluginVars>>

\* The collect period of the proposal collection elapses.
ProposalTimer ==
    /\ TimerCanFire(proposals)
    /\ proposals' = TimerFired(proposals)
    /\ p_feedback' = Append(p_feedback, Decide("TimeElapsed"))
    /\ proposal_channel' = <<>>
    /\ agreement_channel' = <<>>
    /\ last' = [op |-> "proposal_timer"]
    /\ UNCHANGED <<subscriptions, proposal_agreement, agreements, a_feedback, inflight,
                   introduced, chainVars, std_bsearch, collVars,
                   namesVars, maxVars, pluginVars>>

\* The collect period of the agreement collection elapses.
AgreementTimer ==
    /\ TimerCanFire(agreements)
    /\ agreements' = TimerFired(agreements)
    /\ a_feedback' = Append(a_feedback, Decide("TimeElapsed"))
    /\ proposal_channel' = <<>>
    /\ agreement_channel' = <<>>
    /\ last' = [op |-> "agreement_timer"]
    /\ UNCHANGED <<subscriptions, proposal_agreement, proposals, p_feedback, inflight,
                   introduced, chainVars, std_bsearch, collVars,
                   namesVars, maxVars, pluginVars>>

\* CompositeNegotiatorConfig: the configurations of the two collections.
EngineConfigs ==
    {[proposals  |-> [collect_period |-> "Some", collect_amount |-> <<2>>, goal |-> Batch(1)],
      agreements |-> [collect_period |-> "Some", collect_amount |-> <<>>,  goal |-> Limit(1)]],
     [proposals  |-> [collect_period |-> "None", collect_amount |-> <<1>>, goal |-> Limit(1)],
      agreements |-> [collect_period |-> "Some", collect_amount |-> <<1>>, goal |-> Limit(0)]]}

-----------------------------------------------------------------------------
(* NegotiatorsChainImpl::add_component and get, chain.rs 20-61 *)

\* A name is a string: the sequence of its characters.
DigitChars == <<"0", "1", "2", "3", "4", "5", "6", "7", "8", "9">>
Digits == {DigitChars[i] : i \in 1..10}
DigitValue(c) == (CHOOSE i \in 1..10 : DigitChars[i] = c) - 1

\* u32::MAX, for a u32 of three bits.
U32Max == 7

\* str::parse::<u32>().ok() on a non-empty string of digits: <<v>>, or <<>>
\* when the number does not fit.
RECURSIVE ParseFrom(_, _, _)
ParseFrom(digits, i, acc) ==
    IF i > Len(digits) THEN <<acc>>
    ELSE LET v == acc * 10 + DigitValue(digits[i])
         IN  IF v > U32Max THEN <<>> ELSE ParseFrom(digits, i + 1, v)

ParseU32(digits) == ParseFrom(digits, 1, 0)

\* format!("{idx}") of a u32
RECURSIVE FormatU32(_)
FormatU32(n) ==
    IF n < 10 THEN <<DigitChars[n + 1]>>
    ELSE FormatU32(n \div 10) \o <<DigitChars[(n % 10) + 1]>>

\* re.captures(&name) for #(?P<idx>[0-9]+)\z: <<i>> when the match starts at
\* position i (a '#' followed by one or more digits up to the end), else <<>>.
Captures(name) ==
    LET starts == {i \in 1..Len(name) :
                      /\ name[i] = "#"
                      /\ i < Len(name)
                      /\ \A j \in (i + 1)..Len(name) : name[j] \in Digits}
    IN  IF starts = {} THEN <<>>
        ELSE <<CHOOSE i \in starts : \A k \in starts : i <= k>>

\* re.replace(&name, format!("#{idx}"))
ReplaceIdx(name, at, idx) == SubSeq(name, 1, at - 1) \o <<"#">> \o FormatU32(idx)

Panic == [kind |-> "Panic"]
Diverges == [kind |-> "Diverges"]

\* A loop body that appends #1 whatever the name ends with.
RenamedAppendOnly(name, checks) == [kind |-> "Name", name |-> name \o <<"#", "1">>]

\* The body of the while loop of add_component: the next name to try.
\* `idx + 1` on u32::MAX panics when the build checks overflow and is 0
\* when it does not.
Renamed(name, checks) ==
    LET caps   == Captures(name)
        parsed == IF caps = <<>> THEN <<>>
                  ELSE ParseU32(SubSeq(name, caps[1] + 1, Len(name)))
    IN  IF parsed # <<>>
        THEN IF parsed[1] + 1 > U32Max
             THEN IF checks THEN Panic
                  ELSE [kind |-> "Name", name |-> ReplaceIdx(name, caps[1], 0)]
             ELSE [kind |-> "Name", name |-> ReplaceIdx(name, caps[1], parsed[1] + 1)]
        ELSE [kind |-> "Name", name |-> name \o <<"#", "1">>]

\* The keys of `names`.
NamesKeys(c) == {p[1] : p \in c.names}

\* while let Some(_) = self.names.get(&name) { ... }: the loop ends with an
\* unused name, panics, or comes back to a name it has tried and never ends.
RECURSIVE RenameLoop(_, _, _, _)
RenameLoop(name, used, checks, tried) ==
    IF name \notin used THEN [kind |-> "Name", name |-> name]
    ELSE IF name \in tried THEN Diverges
    ELSE LET r == Renamed(name, checks)
         IN  IF r.kind = "Panic" THEN r
             ELSE RenameLoop(r.name, used, checks, tried \cup {name})

\* NegotiatorsChainImpl::add_component; the component added is the
\* (Len(components) + 1)-th the chain was given.
add_component(c, name, checks) ==
    LET r         == RenameLoop(name, NamesKeys(c), checks, {})
        component == Len(c.components) + 1
    IN  IF r.kind # "Name" THEN [kind |-> r.kind, chain |-> c]
        ELSE [kind  |-> "Ok",
              chain |-> [components |-> Append(c.components,
                                               [name |-> r.name, component |-> component]),
                         names |-> {p \in c.names : p[1] # r.name}
                                       \cup {<<r.name, component>>}]]

\* NegotiatorsChainImpl::list
list(c) == [i \in 1..Len(c.components) |-> c.components[i].name]

\* A lookup that takes the name without its suffix.
GetByPrefix(c, name) ==
    LET caps == Captures(name)
        base == IF caps = <<>> THEN name ELSE SubSeq(name, 1, caps[1] - 1)
        hits == {p \in c.names : p[1] = base}
    IN  IF hits = {} THEN <<>> ELSE <<(CHOOSE p \in hits : TRUE)[2]>>

\* NegotiatorsChainImpl::get: <<component>> or <<>>
get(c, name) ==
    LET hits == {p \in c.names : p[1] = name}
    IN  IF hits = {} THEN <<>> ELSE <<(CHOOSE p \in hits : TRUE)[2]>>

\* NegotiatorsChainImpl::default
EmptyChain == [components |-> <<>>, names |-> {}]

\* NegotiatorsChain::with, for a chain that was built without a panic.
RECURSIVE with(_, _, _)
with(c, names, checks) ==
    IF names = <<>> THEN c
    ELSE with(add_component(c, Head(names), checks).chain, Tail(names), checks)

-----------------------------------------------------------------------------
(* The other calls of NegotiatorsChain, chain.rs 163-250 *)

NoHook == [op |-> "none"]

\* serde_json::Value::Null
Null == "null"
\* What a component's control_event returns.
ControlResults == {[kind |-> "Ok", value |-> "v1"], [kind |-> "Ok", value |-> Null],
                   [kind |-> "Err"]}

\* NegotiatorsChain::control_event; `answer` is what the component returns
\* if it is called.
control_event(c, component, params, answer) ==
    LET found == get(c, component)
    IN  IF found = <<>>
        THEN [calls |-> <<>>, result |-> [kind |-> "Ok", value |-> Null]]
        ELSE [calls  |-> <<[component |-> found[1], op |-> "control_event",
                            name |-> component, params |-> params]>>,
              result |-> answer]

\* A fan-out that gives up at the first component that fails.
RECURSIVE NotifyStopsAtError(_, _, _, _, _, _)
NotifyStopsAtError(c, op, arg, answers, i, acc) ==
    IF i > Len(c.components) THEN [acc EXCEPT !.result = [kind |-> "Ok"]]
    ELSE IF answers[i] = "Err"
    THEN [calls  |-> Append(acc.calls, [component |-> c.components[i].component,
                                        op |-> op, arg |-> arg]),
          warned |-> acc.warned,
          result |-> [kind |-> "Err"]]
    ELSE NotifyStopsAtError(c, op, arg, answers, i + 1,
            [acc EXCEPT !.calls = Append(@, [component |-> c.components[i].component,
                                             op |-> op, arg |-> arg])])

\* The loop shared by on_agreement_terminated, on_agreement_approved,
\* on_proposal_rejected and on_agreement_event: every component is called, an
\* error is logged with the component's name (.map_err(log::warn!).ok()),
\* and the chain returns Ok(()).  answers[i] is what the i-th component
\* returns if it is called.
RECURSIVE Notify(_, _, _, _, _, _)
Notify(c, op, arg, answers, i, acc) ==
    IF i > Len(c.components) THEN [acc EXCEPT !.result = [kind |-> "Ok"]]
    ELSE Notify(c, op, arg, answers, i + 1,
            [calls  |-> Append(acc.calls, [component |-> c.components[i].component,
                                           op |-> op, arg |-> arg]),
             warned |-> IF answers[i] = "Err"
                        THEN Append(acc.warned, c.components[i].name)
                        ELSE acc.warned,
             result |-> acc.result])

NoCalls == [calls |-> <<>>, warned |-> <<>>, result |-> [kind |-> "None"]]

on_agreement_terminated(c, agreement_id, answers) ==
    Notify(c, "on_agreement_terminated", agreement_id, answers, 1, NoCalls)

on_agreement_approved(c, agreement_id, answers) ==
    Notify(c, "on_agreement_approved", agreement_id, answers, 1, NoCalls)

on_proposal_rejected(c, proposal_id, answers) ==
    Notify(c, "on_proposal_rejected", proposal_id, answers, 1, NoCalls)

on_agreement_event(c, agreement_id, answers) ==
    Notify(c, "on_agreement_event", agreement_id, answers, 1, NoCalls)

\* An offer template is the sequence of the components that have filled it.
\* A fold that hands every component the template the chain was given.
RECURSIVE FillFromOriginal(_, _, _, _, _, _)
FillFromOriginal(c, answers, i, original, offer_template, made) ==
    IF i > Len(c.components)
    THEN [calls |-> made, result |-> [kind |-> "Ok", template |-> offer_template]]
    ELSE LET component == c.components[i].component
             called    == Append(made, [component |-> component, op |-> "fill_template",
                                         arg |-> original])
         IN  IF answers[i] = "Err"
             THEN [calls |-> called,
                   result |-> [kind |-> "Err", component |-> c.components[i].name]]
             ELSE FillFromOriginal(c, answers, i + 1, original,
                                   Append(original, component), called)

\* The loop of NegotiatorsChain::fill_template: a component that answers Ok
\* returns the template with its own mark added; the first error ends the
\* loop (`?`) and is returned with the component's name in its text.
RECURSIVE FillFrom(_, _, _, _, _)
FillFrom(c, answers, i, offer_template, made) ==
    IF i > Len(c.components)
    THEN [calls |-> made, result |-> [kind |-> "Ok", template |-> offer_template]]
    ELSE LET component == c.components[i].component
             called    == Append(made, [component |-> component, op |-> "fill_template",
                                         arg |-> offer_template])
         IN  IF answers[i] = "Err"
             THEN [calls |-> called,
                   result |-> [kind |-> "Err", component |-> c.components[i].name]]
             ELSE FillFrom(c, answers, i + 1, Append(offer_template, component), called)

FillTemplateOriginal(c, offer_template, answers) ==
    FillFromOriginal(c, answers, 1, offer_template, offer_template, <<>>)

fill_template(c, offer_template, answers) == FillFrom(c, answers, 1, offer_template, <<>>)

\* Handler<CreateOffer>: NewOffer::new(properties, constraints) of the filled
\* template, or the chain's error.
CreateOfferResult(filled) ==
    IF filled.kind = "Err" THEN filled
    ELSE [kind |-> "Ok", offer |-> [properties |-> filled.template]]

-----------------------------------------------------------------------------
(* A chain that is built and asked for a component (SpecNames) *)

MaxNames == 4        \* components added to the chain

NameA == <<"A">>
\* The names add_component is called with: A, A#, A#1, A#2, A#01, and A#n
\* for n = u32::MAX and n = u32::MAX + 1.
NameInputs ==
    {NameA, NameA \o <<"#">>, NameA \o <<"#", "1">>, NameA \o <<"#", "2">>,
     NameA \o <<"#", "0", "1">>,
     NameA \o <<"#">> \o FormatU32(U32Max), NameA \o <<"#">> \o FormatU32(U32Max + 1)}

\* NegotiatorsChain::add_component
AddComponent ==
    /\ Len(chain.components) < MaxNames
    /\ \E name \in NameInputs :
          LET r == add_component(chain, name, overflow_checks)
          IN  /\ chain' = r.chain
              /\ hook' = [op |-> "add_component", name |-> name, result |-> r.kind]
    /\ UNCHANGED <<overflow_checks, chainVars, std_bsearch, collVars, engineVars, maxVars, pluginVars>>

\* NegotiatorsChain::control_event, reached through Handler<ControlEvent>
ControlEvent ==
    /\ \E component \in NameInputs \cup NamesKeys(chain), answer \in ControlResults :
          LET r == control_event(chain, component, "params", answer)
          IN  hook' = [op |-> "control_event", name |-> component,
                       calls |-> r.calls, result |-> r.result,
                       answer |-> IF r.calls = <<>> THEN [kind |-> "None"] ELSE answer]
    /\ UNCHANGED <<overflow_checks, chain, chainVars, std_bsearch, collVars, engineVars,
                   maxVars, pluginVars>>

-----------------------------------------------------------------------------
(* A chain whose components are told of events and fill a template (SpecHooks) *)

HookAnswers == [1..Len(chain.components) -> {"Ok", "Err"}]

OnAgreementTerminated ==
    /\ \E agreement_id \in {"a1", "a2"}, answers \in HookAnswers :
          hook' = [op |-> "on_agreement_terminated", answers |-> answers]
                      @@ on_agreement_terminated(chain, agreement_id, answers)
    /\ UNCHANGED <<overflow_checks, chain, chainVars, std_bsearch, collVars, engineVars,
                   maxVars, pluginVars>>

OnAgreementApproved ==
    /\ \E agreement_id \in {"a1", "a2"}, answers \in HookAnswers :
          hook' = [op |-> "on_agreement_approved", answers |-> answers]
                      @@ on_agreement_approved(chain, agreement_id, answers)
    /\ UNCHANGED <<overflow_checks, chain, chainVars, std_bsearch, collVars, engineVars,
                   maxVars, pluginVars>>

OnProposalRejected ==
    /\ \E proposal_id \in ProposalIds, answers \in HookAnswers :
          hook' = [op |-> "on_proposal_rejected", answers |-> answers]
                      @@ on_proposal_rejected(chain, proposal_id, answers)
    /\ UNCHANGED <<overflow_checks, chain, chainVars, std_bsearch, collVars, engineVars,
                   maxVars, pluginVars>>

OnAgreementEvent ==
    /\ \E agreement_id \in {"a1", "a2"}, answers \in HookAnswers :
          hook' = [op |-> "on_agreement_event", answers |-> answers]
                      @@ on_agreement_event(chain, agreement_id, answers)
    /\ UNCHANGED <<overflow_checks, chain, chainVars, std_bsearch, collVars, engineVars,
                   maxVars, pluginVars>>

\* Handler<CreateOffer>, composite.rs 109-123; the template it is sent has
\* been filled by nobody.
CreateOffer ==
    /\ \E answers \in HookAnswers :
          LET r == fill_template(chain, <<>>, answers)
          IN  hook' = [op |-> "CreateOffer", answers |-> answers, calls |-> r.calls,
                       filled |-> r.result, result |-> CreateOfferResult(r.result)]
    /\ UNCHANGED <<overflow_checks, chain, chainVars, std_bsearch, collVars, engineVars,
                   maxVars, pluginVars>>

-----------------------------------------------------------------------------
(* MaxAgreements, builtin-negotiators/src/max_agreements.rs *)

\* Config::max_agreements of the component under study.
MaxAgreementsConfig == 1

\* A component that always has a free slot.
HasFreeSlotAlways(active) == TRUE

\* MaxAgreements::has_free_slot
has_free_slot(active) == Cardinality(active) < MaxAgreementsConfig

NoCapacity == "No capacity available. Reached Agreements limit: 1"

\* MaxAgreements::negotiate_step
MaxNegotiateStep(active, offer, score) ==
    IF has_free_slot(active)
    THEN [kind |-> "Ready", proposal |-> offer, score |-> score]
    ELSE [kind |-> "Reject", reason |-> NoCapacity, is_final |-> FALSE]

\* `self.max_agreements as usize - self.active_agreements.len()`: a usize
\* subtraction, which panics below zero in a build that checks overflow and
\* wraps around in one that does not.
FreeSlots(len, checks) ==
    IF len <= MaxAgreementsConfig
    THEN [kind |-> "Ok", free_slots |-> MaxAgreementsConfig - len]
    ELSE IF checks THEN [kind |-> "Panic", free_slots |-> 0]
    ELSE [kind |-> "Ok", free_slots |-> UsizeMax + 1 - (len - MaxAgreementsConfig)]

\* MaxAgreements::on_agreement_terminated: the id is removed, then the free
\* slots are computed and logged.
MaxOnAgreementTerminated(active, agreement_id, checks) ==
    LET left == active \ {agreement_id}
        free == FreeSlots(Cardinality(left), checks)
    IN  [active |-> left, kind |-> free.kind, free_slots |-> free.free_slots]

\* MaxAgreements::on_agreement_approved: the agreement is inserted in both
\* branches, the second one returns an error.
MaxOnAgreementApproved(active, agreement_id) ==
    [active |-> active \cup {agreement_id}, err |-> ~has_free_slot(active)]

\* components.negotiate_step(...) of a chain made of this one component.
MaxChainOutcomes ==
    {negotiate_step(<<MaxNegotiateStep(active_agreements, "c0", ScoreDefault)>>,
                    "c0", ScoreDefault)}

\* The evaluations of an actor whose chain is this one component.
MaxProposalEvaluated == ProposalEvaluatedBy(MaxChainOutcomes)

MaxAgreementEvaluated == AgreementEvaluatedBy(MaxChainOutcomes)

\* Handler<AgreementSigned>, composite.rs 353-360, sent by the market for the
\* agreement the actor has just approved; the chain's on_agreement_approved
\* drops the component's error.
AgreementSigned ==
    /\ Len(agreement_channel) = 1
    /\ agreement_channel[1].action = "ApproveAgreement"
    /\ LET id == agreement_channel[1].id
           r  == MaxOnAgreementApproved(active_agreements, id)
       IN  /\ active_agreements' = r.active
           /\ last' = [op |-> "AgreementSigned", id |-> id, err |-> r.err]
    /\ proposal_channel' = <<>>
    /\ agreement_channel' = <<>>
    /\ UNCHANGED <<subscriptions, proposal_agreement, proposals, agreements, p_feedback,
                   a_feedback, inflight, introduced, terminated,
                   chainVars, std_bsearch, collVars, namesVars, pluginVars>>

\* Handler<AgreementFinalized>, composite.rs 362-375, for an active agreement.
AgreementFinalized ==
    /\ \E id \in active_agreements :
          /\ active_agreements' =
                 MaxOnAgreementTerminated(active_agreements, id, overflow_checks).active
          /\ terminated' = terminated \cup {id}
          /\ last' = [op |-> "AgreementFinalized", id |-> id]
    /\ proposal_channel' = <<>>
    /\ agreement_channel' = <<>>
    /\ UNCHANGED <<subscriptions, proposal_agreement, proposals, agreements, p_feedback,
                   a_feedback, inflight, introduced,
                   chainVars, std_bsearch, collVars, namesVars, pluginVars>>

-----------------------------------------------------------------------------
(* One MaxAgreements called directly (SpecSlots) *)

MaxAgreementIds == 3 \* agreement ids one MaxAgreements is told of

SlotIds == 1..MaxAgreementIds

\* on_agreement_approved of the component, for any agreement.
MaxApproved ==
    /\ \E id \in SlotIds :
          LET r == MaxOnAgreementApproved(active_agreements, id)
          IN  /\ active_agreements' = r.active
              /\ last' = [op |-> "on_agreement_approved", id |-> id,
                          kind |-> IF r.err THEN "Err" ELSE "Ok", free_slots |-> 0]
    /\ UNCHANGED <<subscriptions, proposal_agreement, proposals, agreements, p_feedback,
                   a_feedback, proposal_channel, agreement_channel, inflight, introduced,
                   terminated, chainVars, std_bsearch, collVars, namesVars, pluginVars>>

\* on_agreement_terminated of the component, for any agreement; after a panic
\* the component is not called again.
MaxTerminated ==
    /\ last.op = "on_agreement_terminated" => last.kind # "Panic"
    /\ \E id \in SlotIds :
          LET r == MaxOnAgreementTerminated(active_agreements, id, overflow_checks)
          IN  /\ active_agreements' = r.active
              /\ terminated' = terminated \cup {id}
              /\ last' = [op |-> "on_agreement_terminated", id |-> id,
                          kind |-> r.kind, free_slots |-> r.free_slots]
    /\ UNCHANGED <<subscriptions, proposal_agreement, proposals, agreements, p_feedback,
                   a_feedback, proposal_channel, agreement_channel, inflight, introduced,
                   chainVars, std_bsearch, collVars, namesVars, pluginVars>>

-----------------------------------------------------------------------------
(* ComponentMutWrapper, negotiator-component/src/component_mut.rs 83-156 *)

MaxCallers == 3      \* tasks that call one wrapper, one service factory or one server

Callers == 1..MaxCallers

\* The functions of NegotiatorComponent the wrapper implements.
WrapperOps ==
    {"negotiate_step", "fill_template", "on_agreement_terminated", "on_agreement_approved",
     "on_proposal_rejected", "on_agreement_event", "control_event", "shutdown"}

\* ComponentMutWrapper::new: the mutex is free and nobody is calling.
NewWrapper ==
    [holder |-> 0, waiters |-> <<>>, pc |-> [c \in Callers |-> "idle"],
     op |-> [c \in Callers |-> "none"]]

NoWrapper == [holder |-> 0, waiters |-> <<>>, pc |-> <<>>, op |-> <<>>]

\* A guard dropped with the newest waiter served first.
MutReturnNewestFirst(c) ==
    /\ wrapper.pc[c] = "inside"
    /\ LET n == Len(wrapper.waiters)
       IN  IF n = 0
           THEN wrapper' = [wrapper EXCEPT !.holder = 0, !.pc[c] = "idle", !.op[c] = "none"]
           ELSE wrapper' = [wrapper EXCEPT !.holder = wrapper.waiters[n],
                                           !.waiters = SubSeq(wrapper.waiters, 1, n - 1),
                                           !.pc[c] = "idle", !.op[c] = "none",
                                           !.pc[wrapper.waiters[n]] = "locked"]
    /\ UNCHANGED <<chainVars, std_bsearch, collVars, engineVars, namesVars, maxVars,
                   services, server>>

\* `self.inner.lock().await` of a call of the wrapper: the caller gets the
\* guard when the mutex is free and joins the queue of the mutex otherwise.
MutLock(c) ==
    /\ wrapper.pc[c] = "idle"
    /\ \E op \in WrapperOps :
          IF wrapper.holder = 0
          THEN wrapper' = [wrapper EXCEPT !.holder = c, !.pc[c] = "locked", !.op[c] = op]
          ELSE wrapper' = [wrapper EXCEPT !.waiters = Append(@, c), !.pc[c] = "waiting",
                                          !.op[c] = op]
    /\ UNCHANGED <<chainVars, std_bsearch, collVars, engineVars, namesVars, maxVars,
                   services, server>>

\* The holder of the guard enters the function of the wrapped component.
MutEnter(c) ==
    /\ wrapper.pc[c] = "locked"
    /\ wrapper' = [wrapper EXCEPT !.pc[c] = "inside"]
    /\ UNCHANGED <<chainVars, std_bsearch, collVars, engineVars, namesVars, maxVars,
                   services, server>>

\* The function of the wrapped component returns and the guard, a temporary
\* of the call expression, is dropped: tokio's mutex hands the lock to the
\* waiter that has queued longest.
MutReturn(c) ==
    /\ wrapper.pc[c] = "inside"
    /\ IF wrapper.waiters = <<>>
       THEN wrapper' = [wrapper EXCEPT !.holder = 0, !.pc[c] = "idle", !.op[c] = "none"]
       ELSE wrapper' = [wrapper EXCEPT !.holder = Head(wrapper.waiters),
                                       !.waiters = Tail(wrapper.waiters),
                                       !.pc[c] = "idle", !.op[c] = "none",
                                       !.pc[Head(wrapper.waiters)] = "locked"]
    /\ UNCHANGED <<chainVars, std_bsearch, collVars, engineVars, namesVars, maxVars,
                   services, server>>

-----------------------------------------------------------------------------
(* RemoteServiceHandle::create_service, interfaces/grpc/src/factory.rs 16-96 *)

\* The paths create_service is called with: two spellings of one binary and
\* another binary.
RawPaths == {"plugin", "/bin/plugin", "/bin/other"}

\* SERVICES is empty, no process was spawned and nobody is calling.
NewServices ==
    [map |-> <<>>, processes |-> <<>>, pc |-> [c \in Callers |-> [at |-> "idle"]]]

NoServices == [map |-> <<>>, processes |-> <<>>, pc |-> <<>>]

\* create_service up to its first await that can suspend it, factory.rs
\* 42-70: the path is canonicalized, a memoized service is returned, and
\* otherwise the binary is spawned (or cannot be) and the call goes to sleep.
\* A process is the index of its path in `processes`.
CreateServiceSpawn(c) ==
    /\ services.pc[c].at = "idle"
    /\ \E raw \in RawPaths, spawn \in {"Ok", "Err"} :
          LET path == IF raw = "plugin" THEN "/bin/plugin" ELSE raw
              existing_service == {e \in {services.map[i] : i \in 1..Len(services.map)} :
                                        e.path = path}
          IN  IF existing_service # {}
              THEN services' = [services EXCEPT !.pc[c] =
                        [at |-> "returned", path |-> path, result |-> "Ok",
                         service |-> (CHOOSE e \in existing_service : TRUE).process]]
              ELSE IF spawn = "Err"
              THEN services' = [services EXCEPT !.pc[c] =
                        [at |-> "returned", path |-> path, result |-> "Err", service |-> 0]]
              ELSE services' = [services EXCEPT
                        !.processes = Append(@, path),
                        !.pc[c] = [at |-> "sleep", path |-> path,
                                   process |-> Len(services.processes) + 1]]
    /\ UNCHANGED <<chainVars, std_bsearch, collVars, engineVars, namesVars, maxVars,
                   wrapper, server>>

\* The rest of create_service, factory.rs 71-86: the client connects (or
\* cannot) and the service is inserted in SERVICES under the path, in place
\* of the one that may be there.
CreateServiceInsert(c) ==
    /\ services.pc[c].at = "sleep"
    /\ \E connect \in {"Ok", "Err"} :
          LET path    == services.pc[c].path
              process == services.pc[c].process
          IN  IF connect = "Err"
              THEN services' = [services EXCEPT !.pc[c] =
                        [at |-> "returned", path |-> path, result |-> "Err", service |-> 0]]
              ELSE services' = [services EXCEPT
                        !.map = SelectSeq(@, LAMBDA e : e.path # path)
                                    \o <<[path |-> path, process |-> process]>>,
                        !.pc[c] = [at |-> "returned", path |-> path, result |-> "Ok",
                                   service |-> process]]
    /\ UNCHANGED <<chainVars, std_bsearch, collVars, engineVars, namesVars, maxVars,
                   wrapper, server>>

-----------------------------------------------------------------------------
(* GrpcNegotiatorServer, interfaces/grpc/src/server.rs 24-147, and the
   NegotiatorWrapper actors it starts, interfaces/grpc/src/actor.rs *)

MaxNegotiators == 2  \* negotiators one server is asked to create
MaxMailbox == 2      \* messages waiting in the mailbox of one NegotiatorWrapper

\* Ids a client may name: the ids the server can give out and one it cannot.
NegotiatorIds == 1..(MaxNegotiators + 1)

\* GrpcNegotiatorServer::default. `components` maps an id to the actor
\* started for it, which is named by the id as well; `negotiators` counts
\* the component instances created, `actors[id]` is the state of the actor
\* and its mailbox, `invoked` the instance the last step called.
NewServer ==
    [components |-> {}, negotiators |-> 0, actors |-> <<>>,
     rpc |-> [op |-> "none"], invoked |-> 0]

NoServer == [components |-> {}, negotiators |-> -1, actors |-> <<>>,
             rpc |-> [op |-> "none"], invoked |-> 0]

\* A call_negotiator that sends to whatever actor `components` holds.
CallNegotiatorAny(id) ==
    /\ server.negotiators >= 0
    /\ LET found == IF server.components = {} THEN 0
                    ELSE CHOOSE i \in server.components : TRUE
       IN  IF found = 0
           THEN server' = [server EXCEPT !.rpc = [op |-> "CallNegotiator", id |-> id,
                                                  status |-> "NotFound"],
                                         !.invoked = 0]
           ELSE /\ Len(server.actors[found].mailbox) < MaxMailbox
                /\ server' = [server EXCEPT
                       !.actors[found].mailbox = Append(@, "NegotiationMessage"),
                       !.rpc = [op |-> "CallNegotiator", id |-> id, status |-> "Sent"],
                       !.invoked = 0]
    /\ UNCHANGED <<chainVars, std_bsearch, collVars, engineVars, namesVars, maxVars,
                   wrapper, services>>

\* create_negotiator, server.rs 40-90. generate_id draws 64 random
\* alphanumeric characters; the model takes the draw to be an id not drawn
\* before.
CreateNegotiator ==
    /\ server.negotiators >= 0
    /\ server.negotiators < MaxNegotiators
    /\ \E created \in {"Ok", "Err"} :
          IF created = "Err"
          THEN server' = [server EXCEPT !.rpc = [op |-> "CreateNegotiator", id |-> 0,
                                                 status |-> "InvalidArgument"],
                                        !.invoked = 0]
          ELSE LET id == server.negotiators + 1
               IN  server' = [server EXCEPT
                       !.negotiators = id,
                       !.actors = Append(@, [running |-> TRUE, mailbox |-> <<>>]),
                       !.components = @ \cup {id},
                       !.rpc = [op |-> "CreateNegotiator", id |-> id, status |-> "Ok"],
                       !.invoked = 0]
    /\ UNCHANGED <<chainVars, std_bsearch, collVars, engineVars, namesVars, maxVars,
                   wrapper, services>>

\* call_negotiator up to `wrapper.send(message)`, server.rs 116-130: the id
\* is looked up and the message is put in the mailbox of the actor found, if
\* that actor still runs.
CallNegotiator(id) ==
    /\ server.negotiators >= 0
    /\ IF id \notin server.components
       THEN server' = [server EXCEPT !.rpc = [op |-> "CallNegotiator", id |-> id,
                                              status |-> "NotFound"],
                                     !.invoked = 0]
       ELSE IF ~server.actors[id].running
       THEN server' = [server EXCEPT !.rpc = [op |-> "CallNegotiator", id |-> id,
                                              status |-> "Internal"],
                                     !.invoked = 0]
       ELSE /\ Len(server.actors[id].mailbox) < MaxMailbox
            /\ server' = [server EXCEPT
                   !.actors[id].mailbox = Append(@, "NegotiationMessage"),
                   !.rpc = [op |-> "CallNegotiator", id |-> id, status |-> "Sent"],
                   !.invoked = 0]
    /\ UNCHANGED <<chainVars, std_bsearch, collVars, engineVars, namesVars, maxVars,
                   wrapper, services>>

\* shutdown_negotiator up to `wrapper.send(Shutdown)`, server.rs 92-108: the
\* id is removed from `components` and Shutdown is put in the actor's mailbox.
ShutdownNegotiator(id) ==
    /\ server.negotiators >= 0
    /\ IF id \notin server.components
       THEN server' = [server EXCEPT !.rpc = [op |-> "ShutdownNegotiator", id |-> id,
                                              status |-> "NotFound"],
                                     !.invoked = 0]
       ELSE server' = [server EXCEPT
                !.components = @ \ {id},
                !.actors[id].mailbox = Append(@, "Shutdown"),
                !.rpc = [op |-> "ShutdownNegotiator", id |-> id, status |-> "Sent"],
                !.invoked = 0]
    /\ UNCHANGED <<chainVars, std_bsearch, collVars, engineVars, namesVars, maxVars,
                   wrapper, services>>

\* The actor of `id` takes the next message of its mailbox, actor.rs 30-91:
\* a NegotiationMessage calls the negotiator the actor was built around,
\* Shutdown stops the actor, and what is left in the mailbox is dropped.
NegotiatorWrapperHandles(id) ==
    /\ id \in 1..server.negotiators
    /\ server.actors[id].running
    /\ server.actors[id].mailbox # <<>>
    /\ IF Head(server.actors[id].mailbox) = "Shutdown"
       THEN server' = [server EXCEPT
                !.actors[id] = [running |-> FALSE, mailbox |-> <<>>],
                !.rpc = [op |-> "Handler<Shutdown>", id |-> id, status |-> "Ok"],
                !.invoked = 0]
       ELSE server' = [server EXCEPT
                !.actors[id].mailbox = Tail(@),
                !.rpc = [op |-> "Handler<NegotiationMessage>", id |-> id, status |-> "Ok"],
                !.invoked = id]
    /\ UNCHANGED <<chainVars, std_bsearch, collVars, engineVars, namesVars, maxVars,
                   wrapper, services>>

-----------------------------------------------------------------------------
(* Specifications *)

PluginIdle ==
    /\ wrapper = NoWrapper
    /\ services = NoServices
    /\ server = NoServer

NamesIdle ==
    /\ overflow_checks = TRUE
    /\ chain = EmptyChain
    /\ hook = NoHook

MaxIdle ==
    /\ active_agreements = {}
    /\ terminated = {}

ChainIdle ==
    /\ components = 0
    /\ frame = IdleFrame
    /\ calls = <<>>

CollIdle ==
    /\ coll = NewCollection([collect_period |-> "None", collect_amount |-> <<>>,
                             goal |-> Limit(0)])
    /\ sent = <<>>
    /\ call = NoCall
    /\ next_id = 1
    /\ budget = 0
    /\ accepted_total = 0

NoMessages ==
    [count |-> 0, proposals |-> {}, drafts |-> {}, agreements |-> {}, ready |-> {},
     created |-> {}, supplied |-> {}]

EngineIdle ==
    /\ subscriptions = EmptyMap
    /\ proposal_agreement = EmptyMap
    /\ proposals = <<>>
    /\ agreements = <<>>
    /\ p_feedback = <<>>
    /\ a_feedback = <<>>
    /\ proposal_channel = <<>>
    /\ agreement_channel = <<>>
    /\ inflight = EmptyBag
    /\ introduced = NoMessages
    /\ last = [op |-> "new"]

InitChain ==
    /\ components \in 0..MaxChain
    /\ frame = IdleFrame
    /\ calls = <<>>
    /\ std_bsearch = "early_return"
    /\ CollIdle
    /\ EngineIdle
    /\ NamesIdle
    /\ MaxIdle
    /\ PluginIdle

NextChain ==
    \/ NegotiateStepBegin
    \/ NegotiateStepCall
    \/ NegotiateStepReturn

SpecChain == InitChain /\ [][NextChain]_vars

InitColl ==
    /\ std_bsearch \in StdBuilds
    /\ \E config \in Configs :
          /\ coll = NewCollection(config)
          /\ budget = IF config.goal.kind = "Limit" THEN config.goal.n ELSE 0
    /\ sent = <<>>
    /\ call = NoCall
    /\ next_id = 1
    /\ accepted_total = 0
    /\ ChainIdle
    /\ EngineIdle
    /\ NamesIdle
    /\ MaxIdle
    /\ PluginIdle

NextColl ==
    \/ CollNewScored
    \/ CollDecide
    \/ CollSetGoal
    \/ CollTimer

SpecColl == InitColl /\ [][NextColl]_vars

\* A collection that is only filled: any sequence of new_scored calls.
TiesNewScored == NewScoredUpTo(MaxTies)

SpecTies == InitColl /\ [][TiesNewScored]_vars

\* The Negotiator actor after Negotiator::new and Actor::started.
Init ==
    /\ ChainIdle
    /\ CollIdle
    /\ std_bsearch \in StdBuilds
    /\ \E config \in EngineConfigs :
          /\ proposals = NewCollection(config.proposals)
          /\ agreements = NewCollection(config.agreements)
    /\ subscriptions = EmptyMap
    /\ proposal_agreement = EmptyMap
    /\ p_feedback = <<>>
    /\ a_feedback = <<>>
    /\ proposal_channel = <<>>
    /\ agreement_channel = <<>>
    /\ inflight = EmptyBag
    /\ introduced = NoMessages
    /\ last = [op |-> "new"]
    /\ NamesIdle
    /\ MaxIdle
    /\ PluginIdle

Next ==
    \/ ReactToProposal
    \/ ProposalEvaluated
    \/ ReactToAgreement
    \/ AgreementEvaluated
    \/ RequestAgreements
    \/ ProposalFeedback
    \/ AgreementFeedback
    \/ ProposalTimer
    \/ AgreementTimer

Spec == Init /\ [][Next]_vars

\* The actor's proposal side alone, with a timer task that runs and a feedback
\* stream that is polled.
NextProposals ==
    \/ ReactToProposal
    \/ ProposalEvaluated
    \/ ProposalFeedback
    \/ ProposalTimer

SpecProposals ==
    Init /\ [][NextProposals]_vars /\ WF_vars(ProposalTimer) /\ WF_vars(ProposalFeedback)

\* A chain under construction: any sequence of add_component calls, in a
\* debug or a release build, and control_event calls in between.
InitNames ==
    /\ overflow_checks \in BOOLEAN
    /\ chain = EmptyChain
    /\ hook = NoHook
    /\ std_bsearch = "early_return"
    /\ ChainIdle
    /\ CollIdle
    /\ EngineIdle
    /\ MaxIdle
    /\ PluginIdle

NextNames ==
    \/ AddComponent
    \/ ControlEvent

SpecNames == InitNames /\ [][NextNames]_vars

\* A chain of up to MaxChain components, all added under the name A.
InitHooks ==
    /\ overflow_checks \in BOOLEAN
    /\ \E n \in 0..MaxChain :
          chain = with(EmptyChain, [i \in 1..n |-> NameA], overflow_checks)
    /\ hook = NoHook
    /\ std_bsearch = "early_return"
    /\ ChainIdle
    /\ CollIdle
    /\ EngineIdle
    /\ MaxIdle
    /\ PluginIdle

NextHooks ==
    \/ OnAgreementTerminated
    \/ OnAgreementApproved
    \/ OnProposalRejected
    \/ OnAgreementEvent
    \/ CreateOffer

SpecHooks == InitHooks /\ [][NextHooks]_vars

\* The Negotiator actor with a chain of one MaxAgreements component.
NextMax ==
    \/ ReactToProposal
    \/ MaxProposalEvaluated
    \/ ReactToAgreement
    \/ MaxAgreementEvaluated
    \/ RequestAgreements
    \/ ProposalFeedback
    \/ AgreementFeedback
    \/ ProposalTimer
    \/ AgreementTimer
    \/ AgreementSigned
    \/ AgreementFinalized

SpecMax == Init /\ [][NextMax]_vars

\* One ComponentMutWrapper called by MaxCallers tasks, each any number of
\* times. A task that holds the guard is scheduled; whether the function of
\* the wrapped component returns is up to the component.
InitWrapper ==
    /\ wrapper = NewWrapper
    /\ services = NoServices
    /\ server = NoServer
    /\ std_bsearch = "early_return"
    /\ ChainIdle
    /\ CollIdle
    /\ EngineIdle
    /\ NamesIdle
    /\ MaxIdle

NextWrapper == \E c \in Callers : MutLock(c) \/ MutEnter(c) \/ MutReturn(c)

SpecWrapper ==
    InitWrapper /\ [][NextWrapper]_vars /\ \A c \in Callers : WF_vars(MutEnter(c))

\* MaxCallers tasks that each call create_service once.
InitFactory ==
    /\ wrapper = NoWrapper
    /\ services = NewServices
    /\ server = NoServer
    /\ std_bsearch = "early_return"
    /\ ChainIdle
    /\ CollIdle
    /\ EngineIdle
    /\ NamesIdle
    /\ MaxIdle

NextFactory == \E c \in Callers : CreateServiceSpawn(c) \/ CreateServiceInsert(c)

SpecFactory == InitFactory /\ [][NextFactory]_vars

\* One gRPC server and the RPCs of its clients.
InitServer ==
    /\ wrapper = NoWrapper
    /\ services = NoServices
    /\ server = NewServer
    /\ std_bsearch = "early_return"
    /\ ChainIdle
    /\ CollIdle
    /\ EngineIdle
    /\ NamesIdle
    /\ MaxIdle

NextServer ==
    \/ CreateNegotiator
    \/ \E id \in NegotiatorIds :
          \/ CallNegotiator(id)
          \/ ShutdownNegotiator(id)
          \/ NegotiatorWrapperHandles(id)

SpecServer == InitServer /\ [][NextServer]_vars

\* One MaxAgreements{max_agreements: 1} under any sequence of
\* on_agreement_approved and on_agreement_terminated calls, in a debug or a
\* release build.
InitSlots ==
    /\ overflow_checks \in BOOLEAN
    /\ chain = EmptyChain
    /\ hook = NoHook
    /\ std_bsearch = "early_return"
    /\ ChainIdle
    /\ CollIdle
    /\ EngineIdle
    /\ MaxIdle
    /\ PluginIdle

NextSlots == MaxApproved \/ MaxTerminated

SpecSlots == InitSlots /\ [][NextSlots]_vars

-----------------------------------------------------------------------------
(* Properties of NegotiatorsChain::negotiate_step (SpecChain) *)

Returned(k) == calls[k].result
RejectingCalls == {k \in 1..Len(calls) : Returned(k).kind = "Reject"}
FirstRejecting == CHOOSE k \in RejectingCalls : \A j \in RejectingCalls : k <= j

\* C1: when negotiate_step has returned and no component returned an error,
\* the result is the Reject{reason, is_final} of the first component that
\* rejected, unchanged; with no Reject every component was called, the result
\* is Negotiating if some component returned Negotiating and Ready if all
\* returned Ready, and it carries the proposal and score the last component
\* returned (the arguments, for an empty chain).
C1_ChainResult ==
    (frame.pc = "done" /\ \A k \in 1..Len(calls) : Returned(k).kind # "Err") =>
        IF RejectingCalls # {}
        THEN frame.result = Returned(FirstRejecting)
        ELSE /\ Len(calls) = components
             /\ frame.result.kind =
                    IF \E k \in 1..Len(calls) : Returned(k).kind = "Negotiating"
                    THEN "Negotiating" ELSE "Ready"
             /\ frame.result.proposal =
                    IF components = 0 THEN frame.arg_template
                    ELSE Returned(components).proposal
             /\ frame.result.score =
                    IF components = 0 THEN frame.arg_score
                    ELSE Returned(components).score

\* A chain of three whose second component alone is still negotiating, and
\* whose last component changed the proposal.
C1_Witness ==
    /\ frame.pc = "done"
    /\ Len(calls) = 3
    /\ Returned(1).kind = "Ready"
    /\ Returned(2).kind = "Negotiating"
    /\ Returned(3).kind = "Ready"
    /\ Returned(3).proposal # frame.arg_template
    /\ frame.result.kind = "Negotiating"

\* C2: the calls of one negotiate_step go to the components 1, 2, ... in
\* insertion order, each once; every call gets the incoming proposal of the
\* negotiate_step; the first gets the template and score of the caller and
\* call k+1 the proposal and score returned by call k; a call that returned
\* Reject or an error is the last one.
C2_CallOrder ==
    /\ Len(calls) <= components
    /\ \A k \in 1..Len(calls) :
          /\ calls[k].component = k
          /\ calls[k].their = frame.their
          /\ k = 1 => /\ calls[k].template = frame.arg_template
                      /\ calls[k].score = frame.arg_score
          /\ k > 1 => /\ Returned(k - 1).kind \in {"Ready", "Negotiating"}
                      /\ calls[k].template = Returned(k - 1).proposal
                      /\ calls[k].score = Returned(k - 1).score

\* A chain of three whose second component rejects what the first returned:
\* the third is never called.
C2_Witness ==
    /\ frame.pc = "done"
    /\ components = 3
    /\ Len(calls) = 2
    /\ Returned(1).proposal # frame.arg_template
    /\ calls[2].template = Returned(1).proposal
    /\ Returned(2).kind = "Reject"

-----------------------------------------------------------------------------
(* Properties of ProposalsCollection (SpecColl, SpecTies) *)

Sorted(v) == \A i \in 1..(Len(v) - 1) : v[i].score >= v[i + 1].score

\* What one call of decide does to the collection and its feedback channel.
C3_DecideStep ==
    call'.method = "decide" =>
        LET n == Len(coll.awaiting)
            k == Min(coll.goal.n, n)
        IN  /\ coll'.awaiting = <<>>
            /\ Len(sent') = n
            /\ \A i \in 1..n :
                  sent'[i] = IF i <= k THEN Accept(coll.awaiting[i].id)
                             ELSE Reject(coll.awaiting[i].id, "Node is busy.", FALSE)
            /\ \A i \in 1..k : \A j \in (k + 1)..n :
                  coll.awaiting[i].score >= coll.awaiting[j].score
            /\ \A j \in (k + 1)..n :
                  \E m \in 1..Len(coll'.rejected) : coll'.rejected[m] = coll.awaiting[j]
            /\ Len(coll'.rejected) = Len(coll.rejected) + (n - k)

\* C3: a decide over n awaiting entries with k = min(goal size, n) sends
\* Accept for the first k of them and Reject("Node is busy.", not final) for
\* each of the others, one feedback per entry; no accepted entry scores
\* below a rejected one; afterwards nothing is awaiting and every rejected
\* entry is in the rejected pool, which loses nothing.
C3_Decide == [][C3_DecideStep]_vars

\* A decide that accepted one entry and rejected two others.
C3_Witness ==
    /\ call.method = "decide"
    /\ Len(sent) = 3
    /\ sent[1].action = "Accept"
    /\ sent[2].action = "Reject"
    /\ sent[3].action = "Reject"
    /\ Len(coll.rejected) = 2

\* The accounting of a Limit goal.
C4_Remaining ==
    coll.goal.kind = "Limit" =>
        /\ coll.goal.n >= 0
        /\ accepted_total <= budget
        /\ accepted_total + coll.goal.n = budget

C4_DecideStep ==
    (call'.method = "decide" /\ coll.goal.kind = "Limit") =>
        /\ coll'.goal = Limit(coll.goal.n - Accepts(sent'))
        /\ coll'.goal.n >= 0

\* C4: while the goal is a Limit, the accepts emitted plus the remaining
\* limit equal the limit granted (the configured n plus what set_goal added),
\* so the accepts never exceed it; the remaining limit is never negative; and
\* a decide lowers the remaining limit by the number of accepts it sends.
C4_LimitBudget == []C4_Remaining /\ [][C4_DecideStep]_vars

\* The limit was raised by set_goal and then used up, with an entry rejected
\* for want of limit.
C4_Witness ==
    /\ call.method = "decide"
    /\ coll.goal = Limit(0)
    /\ budget = 3
    /\ accepted_total = 3

\* C5: awaiting and rejected are ordered by score, descending; no stored
\* score is NaN and the comparison of the binary search never failed.
C5_Sorted ==
    /\ Sorted(coll.awaiting)
    /\ Sorted(coll.rejected)
    /\ \A i \in 1..Len(coll.awaiting) : ~IsNaN(coll.awaiting[i].score)
    /\ \A i \in 1..Len(coll.rejected) : ~IsNaN(coll.rejected[i].score)
    /\ ~coll.panicked

\* Both vectors hold entries of different scores.
C5_Witness ==
    /\ Len(coll.rejected) = 2
    /\ coll.rejected[1].score > coll.rejected[2].score
    /\ Len(coll.awaiting) = 1
    /\ coll.awaiting[1].score > coll.rejected[1].score

\* C6: two awaiting entries of the same score stand in the order of their
\* insertion (ids are handed out in that order).
C6_TiesKeepInsertionOrder ==
    \A i, j \in 1..Len(coll.awaiting) :
        (i < j /\ coll.awaiting[i].score = coll.awaiting[j].score)
            => coll.awaiting[i].id < coll.awaiting[j].id

-----------------------------------------------------------------------------
(* The actor's answers to ReactToProposal and ReactToAgreement *)

Entries(c) == {c.awaiting[i] : i \in 1..Len(c.awaiting)}
                  \cup {c.rejected[i] : i \in 1..Len(c.rejected)}

C7_Step ==
    (last'.op = "process_proposal_result"
        /\ last'.result.kind \in {"Reject", "Negotiating"}) =>
        /\ proposal_channel' =
              IF last'.result.kind = "Reject"
              THEN <<[action |-> "RejectProposal",
                      subscription_id |-> last'.subscription_id, id |-> last'.id,
                      reason |-> [message |-> last'.result.reason,
                                  is_final |-> <<last'.result.is_final>>]]>>
              ELSE <<[action |-> "CounterProposal",
                      subscription_id |-> last'.subscription_id, id |-> last'.id,
                      proposal |-> last'.result.proposal]>>
        /\ proposals' = proposals
        /\ p_feedback' = p_feedback

\* C7: when process_proposal_result is given a chain result of Reject it puts
\* exactly one RejectProposal for the incoming proposal id on proposal_channel,
\* when given Negotiating exactly one CounterProposal for that id carrying the
\* proposal of the result, and in both cases the proposal collection is left
\* as it was.
C7_RejectOrCounter == [][C7_Step]_vars

\* A Draft proposal, evaluated Negotiating while another one is collected.
C7_Witness ==
    /\ last.op = "process_proposal_result"
    /\ last.result.kind = "Negotiating"
    /\ last.state = "Draft"
    /\ proposals.awaiting # <<>>
    /\ Len(proposal_channel) = 1

C8_Step ==
    (last'.op = "process_proposal_result" /\ last'.result.kind = "Ready") =>
        CASE last'.state = "Initial" ->
                /\ proposal_channel' =
                      <<[action |-> "CounterProposal",
                         subscription_id |-> last'.subscription_id, id |-> last'.id,
                         proposal |-> last'.result.proposal]>>
                /\ proposals' = proposals
                /\ p_feedback' = p_feedback
          [] last'.state = "Draft" ->
                /\ proposal_channel' = <<>>
                /\ Len(proposals'.awaiting) = Len(proposals.awaiting) + 1
                /\ \E i \in 1..Len(proposals'.awaiting) :
                      /\ proposals'.awaiting[i].id = last'.id
                      /\ proposals'.awaiting =
                            VecInsert(proposals.awaiting, i - 1, proposals'.awaiting[i])
                /\ proposals'.rejected = proposals.rejected
          [] OTHER ->
                /\ proposal_channel' = <<>>
                /\ proposals' = proposals
                /\ p_feedback' = p_feedback

C8_Collected ==
    /\ \A e \in Entries(proposals) : e.state = "Draft"
    /\ \A i \in 1..Len(proposal_channel) :
          proposal_channel[i].action = "AcceptProposal" =>
              proposal_channel[i].id \in introduced.drafts

\* C8: when process_proposal_result is given a chain result of Ready, a
\* proposal in state Initial is answered with a CounterProposal, one in state
\* Draft goes into the proposal collection and nothing is sent, and one in any
\* other state is dropped; so every entry of the proposal collection is in
\* state Draft, and an AcceptProposal is only sent for an id that was
\* received in state Draft.
C8_ReadyByState == []C8_Collected /\ [][C8_Step]_vars

\* An Initial proposal evaluated Ready while a Draft one is collected.
C8_Witness ==
    /\ last.op = "process_proposal_result"
    /\ last.result.kind = "Ready"
    /\ last.state = "Initial"
    /\ proposals.awaiting # <<>>
    /\ Len(proposal_channel) = 1

C9_Step ==
    last'.op = "process_agreement_result" =>
        CASE last'.result.kind = "Ready" ->
                /\ agreement_channel' = <<>>
                /\ Len(agreements'.awaiting) = Len(agreements.awaiting) + 1
                /\ \E i \in 1..Len(agreements'.awaiting) :
                      /\ agreements'.awaiting[i].id = last'.their
                      /\ agreements'.awaiting =
                            VecInsert(agreements.awaiting, i - 1, agreements'.awaiting[i])
          [] last'.result.kind = "Reject" ->
                /\ agreement_channel' =
                      <<[action |-> "RejectAgreement",
                         subscription_id |-> last'.subscription_id, id |-> last'.id,
                         reason |-> [message |-> last'.result.reason,
                                     is_final |-> <<last'.result.is_final>>]]>>
                /\ agreements' = agreements
          [] last'.result.kind = "Negotiating" ->
                /\ agreement_channel' =
                      <<[action |-> "RejectAgreement",
                         subscription_id |-> last'.subscription_id, id |-> last'.id,
                         reason |-> [message |-> "Negotiations aren't finished.",
                                     is_final |-> <<TRUE>>]]>>
                /\ agreements' = agreements
          [] OTHER ->
                /\ agreement_channel' = <<>>
                /\ agreements' = agreements

\* process_agreement_result puts an agreement into the agreement collection
\* only when the chain result is Ready; Reject is answered with a
\* RejectAgreement carrying the component's reason, Negotiating with a final
\* RejectAgreement "Negotiations aren't finished.".
AgreementResultSteps == [][C9_Step]_vars

\* C9: process_agreement_result collects an agreement only when its chain
\* result is Ready (Reject and Negotiating are answered with a RejectAgreement
\* at once), so an ApproveAgreement is only ever sent for an agreement whose
\* evaluation was Ready.
C9_ApprovedWereReady ==
    \A i \in 1..Len(agreement_channel) :
        agreement_channel[i].action = "ApproveAgreement" =>
            agreement_channel[i].id \in introduced.ready

\* C10: every action on proposal_channel names a proposal id that an earlier
\* ReactToProposal brought in, and every action on agreement_channel names an
\* agreement id that an earlier ReactToAgreement brought in.
C10_IdsWereIntroduced ==
    /\ \A i \in 1..Len(proposal_channel) :
          proposal_channel[i].id \in introduced.proposals
    /\ \A i \in 1..Len(agreement_channel) :
          agreement_channel[i].id \in introduced.agreements

\* An ApproveAgreement decided by the agreement collection, with a proposal
\* known to the actor as well.
C10_Witness ==
    /\ last.op = "agreement_feedback"
    /\ Len(agreement_channel) = 1
    /\ agreement_channel[1].action = "ApproveAgreement"
    /\ introduced.proposals # {}

-----------------------------------------------------------------------------
(* What the actor does with the feedback of the agreement collection *)

\* The feedback item the actor is about to take from the agreement collection.
AgreementItem == Head(a_feedback)

C11_Step ==
    (last'.op = "agreement_feedback" /\ AgreementItem.action = "Reject") =>
        /\ Len(agreement_channel') = 1
        /\ agreement_channel'[1].action = "RejectAgreement"
        /\ <<AgreementItem.id, agreement_channel'[1].id>> \in introduced.created

\* C11: for every entry of the agreement collection that a decide round does
\* not select (a Reject on its feedback stream) the actor sends exactly one
\* RejectAgreement, and it names the agreement the entry was created from.
C11_RejectedAreAnswered == [][C11_Step]_vars

C12_Step ==
    (last'.op = "agreement_feedback" /\ AgreementItem.action = "Accept") =>
        /\ Len(agreement_channel') = 1
        /\ agreement_channel'[1].action = "ApproveAgreement"
        /\ <<AgreementItem.id, agreement_channel'[1].id>> \in introduced.created
        /\ proposal_agreement'[AgreementItem.id] = "none"

\* C12: for every entry the agreement collection accepts the actor sends an
\* ApproveAgreement that names the agreement the entry was created from, and
\* removes the entry's proposal id from proposal_agreement; agreements may
\* share their demand-side proposal id.
C12_ApprovedIsTheAccepted == [][C12_Step]_vars

-----------------------------------------------------------------------------
(* More properties of ProposalsCollection (SpecColl) *)

\* The collect-period tasks of a collection that may still send.
PendingTimers(c) == c.detached + (IF c.timer = "pending" THEN 1 ELSE 0)

\* C13: a collection never has more than one pending collect-period timer:
\* new and decide cancel the one scheduled before they schedule the next, and
\* a Decide(TimeElapsed) only ever comes from the timer scheduled last.
C13_OneTimer ==
    /\ PendingTimers(coll) <= 1
    /\ coll.detached = 0
    /\ call.method = "timer" =>
          (coll.timer = "fired" /\ sent = <<[action |-> "Decide", reason |-> "TimeElapsed"]>>)

\* A decide of a collection whose timer cannot have fired: it cancelled the
\* timer of the construction and scheduled the next.
C13_Witness ==
    /\ call.method = "decide"
    /\ coll.collect_period = "MAX"
    /\ coll.timer = "pending"

\* C14: a new_scored that succeeds sends one Decide(GoalReached) when it
\* leaves at least collect_amount entries awaiting and nothing otherwise; a
\* collection without collect_amount never sends Decide(GoalReached).
C14_GoalReached ==
    /\ (call.method = "new_scored" /\ ~call.err) =>
          sent = IF Len(coll.awaiting) >= coll.collect_amount
                 THEN <<[action |-> "Decide", reason |-> "GoalReached"]>>
                 ELSE <<>>
    /\ coll.collect_amount = UsizeMax =>
          \A i \in 1..Len(sent) :
              sent[i] # [action |-> "Decide", reason |-> "GoalReached"]

\* The third entry of a collection with collect_amount 2: the decision is
\* asked for again.
C14_Witness ==
    /\ call.method = "new_scored"
    /\ ~call.err
    /\ coll.collect_amount = 2
    /\ Len(coll.awaiting) = 3
    /\ Len(sent) = 1

\* What new_scored would do with a NaN score in the current state.
C17_Refuses ==
    LET r == new_scored(coll, [id |-> next_id, score |-> NaN])
    IN  /\ r.err
        /\ r.coll = coll
        /\ r.sent = <<>>

C17_Step ==
    (call'.method = "new_scored" /\ call'.err) => (coll' = coll /\ sent' = <<>>)

\* C17: in every state of the collection a new_scored with a NaN score
\* returns an error, leaves awaiting, rejected and the goal as they are and
\* sends nothing; and whenever a new_scored has returned an error the
\* collection is as it was.
C17_NaNRefused == []C17_Refuses /\ [][C17_Step]_vars

\* A new_scored that was refused by a collection holding two entries.
C17_Witness ==
    /\ call.method = "new_scored"
    /\ call.err
    /\ Len(coll.awaiting) = 2
    /\ sent = <<>>

\* C18: no entry stored in awaiting or rejected has a score that is
\* infinite or NaN.
C18_StoredScoresFinite ==
    /\ \A i \in 1..Len(coll.awaiting) : coll.awaiting[i].score \in Finite
    /\ \A i \in 1..Len(coll.rejected) : coll.rejected[i].score \in Finite

C19_Step ==
    (call'.method = "decide" /\ coll.goal.kind = "Batch") =>
        /\ Accepts(sent') <= coll.goal.n
        /\ coll'.goal = coll.goal

\* C19: a decide of a collection whose goal is Batch(k) sends at most k
\* Accepts and leaves the goal Batch(k).
C19_BatchKept == [][C19_Step]_vars

\* A second round of a Batch(1) collection: one entry was accepted and
\* rejected entries of an earlier round are still in the pool.
C19_Witness ==
    /\ call.method = "decide"
    /\ coll.goal = [kind |-> "Batch", n |-> 1]
    /\ Accepts(sent) = 1
    /\ Len(sent) = 1
    /\ Len(coll.rejected) >= 1

-----------------------------------------------------------------------------
(* Decision rounds seen from the actor (Spec) *)

\* The Accept and Reject items of a feedback stream.
Decisions(q) == Cardinality({i \in 1..Len(q) : q[i].action # "Decide"})

\* Without collect_amount the agreement collection is only ever asked to
\* decide by its timer.
C15_OnlyTimeElapsed ==
    agreements.collect_amount = UsizeMax =>
        \A i \in 1..Len(a_feedback) :
            a_feedback[i].action = "Decide" => a_feedback[i].reason = "TimeElapsed"

C15_Step ==
    agreements.collect_amount = UsizeMax =>
        /\ (last'.op = "process_agreement_result" /\ last'.result.kind = "Ready") =>
              agreement_channel' = <<>>
        /\ Decisions(a_feedback') > Decisions(a_feedback) =>
              /\ last'.op = "agreement_feedback"
              /\ AgreementItem = [action |-> "Decide", reason |-> "TimeElapsed"]
        /\ (agreement_channel' # <<>> /\ last'.op # "process_agreement_result") =>
              /\ last'.op = "agreement_feedback"
              /\ AgreementItem.action \in {"Accept", "Reject"}

\* C15: when the agreement collection has no collect_amount and a finite
\* collect_period, the evaluation of a Ready agreement sends nothing, every
\* ApproveAgreement and every RejectAgreement for a collected agreement
\* answers an Accept or Reject of the collection, and those only appear when
\* the actor processes a Decide(TimeElapsed) of that collection.
C15_WaitsForPeriod == []C15_OnlyTimeElapsed /\ [][C15_Step]_vars

\* An ApproveAgreement of such a collection.
C15_Witness ==
    /\ agreements.collect_amount = UsizeMax
    /\ agreements.collect_period = "finite"
    /\ last.op = "agreement_feedback"
    /\ Len(agreement_channel) = 1
    /\ agreement_channel[1].action = "ApproveAgreement"

AcceptsFirst(q) ==
    \A i, j \in 1..Len(q) : i < j => ~(q[i].action = "Reject" /\ q[j].action = "Accept")

\* What a step of the feedback handler does to the stream it reads and to the
\* channel it writes: it takes the first item, a Decide appends the round's
\* Accepts followed by its Rejects, an Accept or Reject appends nothing and
\* sends at most the action of its kind.
RoundInOrder(q, q2, out, accept, reject) ==
    LET item  == Head(q)
        added == SubSeq(q2, Len(q), Len(q2))
    IN  /\ Len(q2) >= Len(q) - 1
        /\ q2 = Tail(q) \o added
        /\ IF item.action = "Decide"
           THEN /\ out = <<>>
                /\ AcceptsFirst(added)
                /\ \A i \in 1..Len(added) : added[i].action # "Decide"
           ELSE /\ added = <<>>
                /\ Len(out) <= 1
                /\ \A i \in 1..Len(out) :
                      out[i].action = IF item.action = "Accept" THEN accept ELSE reject

IsPrefix(q, q2) == Len(q) <= Len(q2) /\ SubSeq(q2, 1, Len(q)) = q

C16_Step ==
    /\ IF last'.op = "agreement_feedback"
       THEN RoundInOrder(a_feedback, a_feedback', agreement_channel',
                         "ApproveAgreement", "RejectAgreement")
       ELSE IsPrefix(a_feedback, a_feedback')
    /\ IF last'.op = "proposal_feedback"
       THEN RoundInOrder(p_feedback, p_feedback', proposal_channel',
                         "AcceptProposal", "RejectProposal")
       ELSE IsPrefix(p_feedback, p_feedback')

\* C16: a decide round puts its Accepts on the feedback stream before its
\* Rejects, the streams are only appended to, and the actor takes the items
\* of a stream one by one from the front, sending for each at most the action
\* of its kind: on either outbound channel the accepts of a round go out
\* before its rejects.
C16_AcceptsBeforeRejects == [][C16_Step]_vars

\* A round of the agreement collection that accepted one entry and rejected
\* another.
C16_Witness ==
    /\ last.op = "agreement_feedback"
    /\ Len(a_feedback) = 2
    /\ a_feedback[1].action = "Accept"
    /\ a_feedback[2].action = "Reject"

\* set_goal, for every current and requested goal.
C20_SetGoal ==
    \A cur \in Goals, req \in Goals :
        set_goal([agreements EXCEPT !.goal = cur], req) =
            [agreements EXCEPT !.goal =
                IF cur.kind = "Limit" /\ req.kind = "Limit"
                THEN [kind |-> "Limit", n |-> cur.n + req.n]
                ELSE req]

C20_Step ==
    last'.op = "RequestAgreements" =>
        /\ agreements' =
              [agreements EXCEPT !.goal =
                  IF agreements.goal.kind = "Limit"
                  THEN [kind |-> "Limit", n |-> agreements.goal.n + last'.n]
                  ELSE [kind |-> "Limit", n |-> last'.n]]
        /\ proposals' = proposals

\* C20: set_goal adds a requested Limit to a current Limit and replaces the
\* goal in every other combination; RequestAgreements(n) does set_goal(Limit(n))
\* on the agreement collection and leaves the proposal collection alone.
C20_SetGoalAndRequest == []C20_SetGoal /\ [][C20_Step]_vars

\* A RequestAgreements(1) that raised a Limit(1) to Limit(2).
C20_Witness ==
    /\ last.op = "RequestAgreements"
    /\ last.n = 1
    /\ agreements.goal = [kind |-> "Limit", n |-> 2]

-----------------------------------------------------------------------------
(* The Limit of the agreement collection (Spec) *)

\* What the step added at the end of the agreement feedback stream.
AgreementAdded == SubSeq(a_feedback', Len(a_feedback), Len(a_feedback'))

AgreementDecideStep ==
    last'.op = "agreement_feedback" /\ AgreementItem.action = "Decide"

C21_Step ==
    agreements.goal.kind = "Limit" =>
        LET n        == agreements.goal.n
            awaiting == Len(agreements.awaiting)
            rejects  == {i \in 1..Len(AgreementAdded) : AgreementAdded[i].action = "Reject"}
        IN  /\ AgreementDecideStep =>
                  /\ Accepts(AgreementAdded) = Min(n, awaiting)
                  /\ Cardinality(rejects) = awaiting - Min(n, awaiting)
                  /\ agreements'.goal = Limit(n - Min(n, awaiting))
            /\ last'.op = "RequestAgreements" =>
                  agreements'.goal = Limit(n + last'.n)
            /\ (~AgreementDecideStep /\ last'.op # "RequestAgreements") =>
                  agreements'.goal = agreements.goal

-----------------------------------------------------------------------------
(* Errors of the chain and the order of evaluations (Spec) *)

C23_Step ==
    (last'.op = "process_proposal_result" /\ last'.result.kind = "Err") =>
        /\ Len(proposal_channel') = 1
        /\ proposal_channel'[1].action = "RejectProposal"
        /\ proposal_channel'[1].id = last'.id

\* C23: when the chain's negotiate_step returned an error for a
\* ReactToProposal, the actor sends a RejectProposal for the incoming
\* proposal.
C23_ErrorsAreRejections == [][C23_Step]_vars

\* C30: the agreement of the first ReactToAgreement ("a1") is not waiting for
\* its chain evaluation when the actor has already processed the result of a
\* later ReactToAgreement of the same subscription and demand ("a2").
C30_InDeliveryOrder ==
    ~ \E e \in BagToSet(inflight) :
          /\ e.kind = "agreement"
          /\ e.agreement_id = "a1"
          /\ introduced.agreements = {"a1", "a2"}
          /\ introduced.count = 2
          /\ last.op = "process_agreement_result"
          /\ last.id = "a2"
          /\ last.their = e.their.id
          /\ last.subscription_id = e.subscription_id

-----------------------------------------------------------------------------
(* The fan-out calls of the chain (SpecHooks) *)

NotifyOps == {"on_agreement_approved", "on_agreement_terminated",
              "on_proposal_rejected", "on_agreement_event"}

\* The components in insertion order, as the chain holds them.
InOrder == [i \in 1..Len(chain.components) |-> chain.components[i].component]

\* C22: on_agreement_approved, on_agreement_terminated, on_proposal_rejected
\* and on_agreement_event call every component exactly once, in insertion
\* order and with the caller's argument, whichever components fail, and
\* return Ok.
C22_BestEffort ==
    hook.op \in NotifyOps =>
        /\ [i \in 1..Len(hook.calls) |-> hook.calls[i].component] = InOrder
        /\ \A i \in 1..Len(hook.calls) :
              /\ hook.calls[i].op = hook.op
              /\ hook.calls[i].arg = hook.calls[1].arg
        /\ hook.result = [kind |-> "Ok"]
        /\ Len(hook.warned) =
              Cardinality({i \in 1..Len(hook.answers) : hook.answers[i] = "Err"})

\* Three components of which the first and the last fail.
C22_Witness ==
    /\ hook.op = "on_agreement_approved"
    /\ Len(chain.components) = 3
    /\ hook.answers = <<"Err", "Ok", "Err">>
    /\ Len(hook.calls) = 3
    /\ hook.result = [kind |-> "Ok"]

\* C24: fill_template calls the components in insertion order, each with what
\* the components before it made of the template; the first component that
\* fails is the last one called and the error carries its name, and then
\* CreateOffer returns the error and no offer; without a failure CreateOffer
\* returns the offer made of the template the last component returned.
C24_FillTemplate ==
    hook.op = "CreateOffer" =>
        LET n      == Len(chain.components)
            fails  == {i \in 1..n : hook.answers[i] = "Err"}
            first  == IF fails = {} THEN n + 1
                      ELSE CHOOSE i \in fails : \A j \in fails : i <= j
            called == Min(first, n)
        IN  /\ Len(hook.calls) = called
            /\ \A i \in 1..called :
                  /\ hook.calls[i].component = chain.components[i].component
                  /\ hook.calls[i].arg = SubSeq(InOrder, 1, i - 1)
            /\ IF fails = {}
               THEN /\ hook.filled = [kind |-> "Ok", template |-> InOrder]
                    /\ hook.result = [kind |-> "Ok", offer |-> [properties |-> InOrder]]
               ELSE /\ hook.filled = [kind |-> "Err",
                                      component |-> chain.components[first].name]
                    /\ hook.result.kind = "Err"

\* The second of three components fails: the third is not called.
C24_Witness ==
    /\ hook.op = "CreateOffer"
    /\ Len(chain.components) = 3
    /\ hook.answers = <<"Ok", "Err", "Ok">>
    /\ Len(hook.calls) = 2
    /\ hook.result = [kind |-> "Err", component |-> NameA \o <<"#", "1">>]

-----------------------------------------------------------------------------
(* The names of the chain (SpecNames) *)

\* The positions of the components listed under a name.
Listed(name) == {i \in 1..Len(chain.components) : chain.components[i].name = name}

\* C25: control_event(component, params) calls control_event, with that name
\* and those params, on the one component listed under exactly that name and
\* returns what it returns; when no component is listed under the name it
\* calls nothing and returns Ok(null).
C25_ControlEvent ==
    hook.op = "control_event" =>
        IF Listed(hook.name) = {}
        THEN /\ hook.calls = <<>>
             /\ hook.result = [kind |-> "Ok", value |-> Null]
        ELSE /\ Cardinality(Listed(hook.name)) = 1
             /\ \A i \in Listed(hook.name) :
                   hook.calls = <<[component |-> chain.components[i].component,
                                   op |-> "control_event", name |-> hook.name,
                                   params |-> "params"]>>
             /\ hook.result = hook.answer

\* control_event("A#1") reaches the second component, which was added as "A"
\* after another "A", and returns its error.
C25_Witness ==
    /\ hook.op = "control_event"
    /\ hook.name = NameA \o <<"#", "1">>
    /\ Len(chain.components) >= 2
    /\ chain.components[1].name = NameA
    /\ chain.components[2].name = NameA \o <<"#", "1">>
    /\ Len(hook.calls) = 1
    /\ hook.calls[1].component = 2
    /\ hook.result = [kind |-> "Err"]

\* The names of a chain are pairwise distinct and `names` lists each of them
\* with its component.
DistinctNames(c) ==
    /\ \A i, j \in 1..Len(c.components) :
          c.components[i].name = c.components[j].name => i = j
    /\ c.names = {<<c.components[i].name, c.components[i].component>> :
                      i \in 1..Len(c.components)}

Suffixed(base, k) == base \o <<"#">> \o FormatU32(k)

\* <<k>> for the smallest k in from..to for which base#k is not in `used`.
SmallestUnused(base, from, to, used) ==
    LET free == {k \in from..to : Suffixed(base, k) \notin used}
    IN  IF free = {} THEN <<>> ELSE <<CHOOSE k \in free : \A m \in free : k <= m>>

\* The step is an add_component that returned.
Added == hook'.op = "add_component" /\ hook'.result = "Ok"
\* The name it was called with, and the name the new component is listed under.
Supplied == hook'.name
Given == chain'.components[Len(chain'.components)].name

C26_OriginalStep ==
    Added =>
        /\ DistinctNames(chain')
        /\ SubSeq(chain'.components, 1, Len(chain.components)) = chain.components
        /\ Len(chain'.components) = Len(chain.components) + 1
        /\ Given = IF Supplied \notin NamesKeys(chain) THEN Supplied
                   ELSE Suffixed(Supplied,
                            SmallestUnused(Supplied, 1, MaxNames + 1, NamesKeys(chain))[1])

C26_Step ==
    Added =>
        LET used   == NamesKeys(chain)
            caps   == Captures(Supplied)
            parsed == IF caps = <<>> THEN <<>>
                      ELSE ParseU32(SubSeq(Supplied, caps[1] + 1, Len(Supplied)))
            base   == IF parsed = <<>> THEN Supplied
                      ELSE SubSeq(Supplied, 1, caps[1] - 1)
            from   == IF parsed = <<>> THEN 1 ELSE parsed[1] + 1
            k      == SmallestUnused(base, from, U32Max, used)
        IN  /\ DistinctNames(chain')
            /\ SubSeq(chain'.components, 1, Len(chain.components)) = chain.components
            /\ Len(chain'.components) = Len(chain.components) + 1
            /\ Supplied \notin used => Given = Supplied
            /\ (Supplied \in used /\ k # <<>>) => Given = Suffixed(base, k[1])

RECURSIVE DigitsValue(_)
DigitsValue(digits) ==
    IF digits = <<>> THEN 0
    ELSE DigitsValue(SubSeq(digits, 1, Len(digits) - 1)) * 10
             + DigitValue(digits[Len(digits)])

C27_Step ==
    hook'.op = "add_component" =>
        LET used == NamesKeys(chain)
            caps == Captures(Supplied)
            base == IF caps = <<>> THEN Supplied ELSE SubSeq(Supplied, 1, caps[1] - 1)
            from == IF caps = <<>> THEN 1
                    ELSE DigitsValue(SubSeq(Supplied, caps[1] + 1, Len(Supplied))) + 1
            k    == SmallestUnused(base, from, from + MaxNames, used)
        IN  /\ hook'.result = "Ok"
            /\ Given = IF Supplied \notin used THEN Supplied ELSE Suffixed(base, k[1])

\* C27: add_component always returns; a name that is in use gets #1 appended
\* when it has no trailing #<digits> and its trailing number raised
\* otherwise, until the name is unused.
C27_RenamingLoop == [][C27_Step]_vars

-----------------------------------------------------------------------------
(* MaxAgreements in the actor's chain (SpecMax) *)

C28_Step ==
    /\ last'.op \in {"process_proposal_result", "process_agreement_result"} =>
          /\ last'.result =
                IF Cardinality(active_agreements) >= MaxAgreementsConfig
                THEN [kind |-> "Reject", reason |-> NoCapacity, is_final |-> FALSE]
                ELSE [kind |-> "Ready", proposal |-> "c0", score |-> ScoreDefault]
          /\ active_agreements' = active_agreements
    /\ last'.op = "AgreementSigned" =>
          active_agreements' = active_agreements \cup {last'.id}
    /\ last'.op = "AgreementFinalized" =>
          active_agreements' = active_agreements \ {last'.id}

\* C28: MaxAgreements{max} answers negotiate_step with a non-final Reject
\* exactly when max or more agreements are active, and otherwise with Ready,
\* template and score as it got them; on_agreement_approved(A) adds A to the
\* active agreements and on_agreement_terminated(A) removes it.
C28_MaxAgreements == [][C28_Step]_vars

\* A proposal found Ready after an agreement was approved, signed and
\* finalized.
C28_Witness ==
    /\ last.op = "process_proposal_result"
    /\ last.result.kind = "Ready"
    /\ terminated # {}
    /\ active_agreements = {}

\* C29: MaxAgreements never holds more than max active agreements.
C29_WithinCapacity == Cardinality(active_agreements) <= MaxAgreementsConfig

-----------------------------------------------------------------------------
(* ComponentMutWrapper and its callers (SpecWrapper) *)

Inside(c) == wrapper.pc[c] = "inside"
Waiting(c) == wrapper.pc[c] = "waiting"

C31_OneInside ==
    /\ Cardinality({c \in Callers : wrapper.pc[c] \in {"locked", "inside"}}) <= 1
    /\ \A c \in Callers : wrapper.pc[c] \in {"locked", "inside"} => wrapper.holder = c

\* C31: at most one caller is inside the wrapped component at any time,
\* whatever function each caller called, and if every call of the wrapped
\* component returns, every caller that waits for the mutex gets inside.
C31_Serialized ==
    /\ []C31_OneInside
    /\ (\A c \in Callers : []<>(~Inside(c)))
          => (\A c \in Callers : Waiting(c) ~> Inside(c))

\* A caller is inside one function while the other callers wait to enter
\* two other functions.
C31_Witness ==
    /\ Inside(1)
    /\ Len(wrapper.waiters) = MaxCallers - 1
    /\ Cardinality({wrapper.op[c] : c \in Callers}) = MaxCallers

ObservationalHooks ==
    {"on_agreement_approved", "on_agreement_terminated", "on_proposal_rejected",
     "on_agreement_event"}

\* C37: when every call of the component other than its observational hooks
\* returns, a negotiate_step that waits for the component is let in, whether
\* the hooks return or not.
C37_HooksCannotStall ==
    (\A c \in Callers : []<>(~(Inside(c) /\ wrapper.op[c] \notin ObservationalHooks)))
        => \A c \in Callers :
              (Waiting(c) /\ wrapper.op[c] = "negotiate_step") ~> Inside(c)

-----------------------------------------------------------------------------
(* Concurrent create_service calls (SpecFactory) *)

Served(c) == services.pc[c].at = "returned" /\ services.pc[c].result = "Ok"

\* C32: no binary is spawned twice, and the calls for one binary that
\* return a service return the same one.
C32_SpawnedOnce ==
    /\ \A i, j \in 1..Len(services.processes) :
          services.processes[i] = services.processes[j] => i = j
    /\ \A c, d \in Callers :
          Served(c) /\ Served(d) /\ services.pc[c].path = services.pc[d].path
              => services.pc[c].service = services.pc[d].service

-----------------------------------------------------------------------------
(* One gRPC server and its clients (SpecServer) *)

Created(id) == id \in 1..server.negotiators

C33_Routing ==
    /\ server.components \subseteq 1..server.negotiators
    /\ server.invoked # 0 => server.invoked = server.rpc.id /\ Created(server.invoked)

C33_Step ==
    /\ server'.rpc.op = "CreateNegotiator" /\ server'.rpc.status = "Ok" =>
          /\ ~Created(server'.rpc.id)
          /\ server'.negotiators = server.negotiators + 1
          /\ server'.components = server.components \cup {server'.rpc.id}
    /\ server'.rpc.op \in {"CallNegotiator", "ShutdownNegotiator"} =>
          /\ server'.invoked = 0
          /\ server'.rpc.id \notin server.components <=> server'.rpc.status = "NotFound"
          /\ server'.rpc.status = "NotFound" => server'.actors = server.actors
          /\ server'.rpc.status = "Sent" =>
                \A i \in 1..server.negotiators :
                    i # server'.rpc.id => server'.actors[i] = server.actors[i]
    /\ server'.rpc.op = "ShutdownNegotiator" /\ server'.rpc.status = "Sent" =>
          server'.rpc.id \notin server'.components
    /\ server'.rpc.op = "Handler<NegotiationMessage>" =>
          /\ server'.invoked = server'.rpc.id
          /\ Head(server.actors[server'.rpc.id].mailbox) = "NegotiationMessage"

-----------------------------------------------------------------------------
(* MaxAgreements called directly (SpecSlots) *)

\* C40: on_agreement_terminated returns, its free slots being max_agreements
\* less the number of active agreements, which is never above max_agreements
\* when it is computed.
C40_NoUnderflow ==
    last.op = "on_agreement_terminated" =>
        /\ last.kind = "Ok"
        /\ Cardinality(active_agreements) <= MaxAgreementsConfig
        /\ last.free_slots = MaxAgreementsConfig - Cardinality(active_agreements)

-----------------------------------------------------------------------------
(* Subscriptions and the correspondence tables of the actor (Spec) *)

\* C34: every action on the two channels carries a subscription id that a
\* ReactToProposal or ReactToAgreement supplied together with the id the
\* action names.
C34_SubscriptionCarried ==
    /\ \A i \in 1..Len(proposal_channel) :
          <<proposal_channel[i].id, proposal_channel[i].subscription_id>>
              \in introduced.supplied
    /\ \A i \in 1..Len(agreement_channel) :
          <<agreement_channel[i].id, agreement_channel[i].subscription_id>>
              \in introduced.supplied

Rejections ==
    {proposal_channel[i] : i \in {j \in 1..Len(proposal_channel) :
                                    proposal_channel[j].action = "RejectProposal"}}
        \cup {agreement_channel[i] : i \in {j \in 1..Len(agreement_channel) :
                                    agreement_channel[j].action = "RejectAgreement"}}

\* C38: the Reason of every RejectProposal and RejectAgreement has a
\* golem.proposal.rejection.is-final entry: the component's flag when the
\* chain rejected, true for "Negotiations aren't finished.", false for the
\* rejections of a decide round.
C38_IsFinalCarried ==
    \A a \in Rejections :
        /\ a.reason.is_final # <<>>
        /\ a.reason.message = "Negotiations aren't finished." => a.reason.is_final = <<TRUE>>
        /\ a.reason.message = "Node is busy." => a.reason.is_final = <<FALSE>>
        /\ (last.op \in {"process_proposal_result", "process_agreement_result"}
                /\ last.result.kind = "Reject")
              => a.reason.is_final = <<last.result.is_final>>

\* The actions just sent that end the negotiation of what they name.
TerminalProposalActions ==
    {proposal_channel[i] : i \in {j \in 1..Len(proposal_channel) :
        \/ proposal_channel[j].action = "AcceptProposal"
        \/ /\ proposal_channel[j].action = "RejectProposal"
           /\ proposal_channel[j].reason.is_final = <<TRUE>>}}
TerminalAgreementActions ==
    {agreement_channel[i] : i \in {j \in 1..Len(agreement_channel) :
        \/ agreement_channel[j].action = "ApproveAgreement"
        \/ /\ agreement_channel[j].action = "RejectAgreement"
           /\ agreement_channel[j].reason.is_final = <<TRUE>>}}

\* C35: once ApproveAgreement or a final RejectAgreement went out for an
\* agreement, proposal_agreement maps no proposal id to it, and once a
\* terminal action went out for a proposal or an agreement, subscriptions has
\* no entry for it.
C35_EntriesRemoved ==
    /\ \A a \in TerminalAgreementActions :
          /\ \A k \in Keys : proposal_agreement[k] # a.id
          /\ subscriptions[a.id] = "none"
    /\ \A a \in TerminalProposalActions : subscriptions[a.id] = "none"

-----------------------------------------------------------------------------
(* The rejected entries of a collection (SpecColl) *)

C39_Step ==
    (/\ call'.method = "decide"
     /\ coll.rejected # <<>>
     /\ coll.goal.n > Len(coll.awaiting)) =>
        \E i \in 1..Len(sent') :
            /\ sent'[i].action = "Accept"
            /\ \E j \in 1..Len(coll.rejected) : coll.rejected[j].id = sent'[i].id

\* C39: a decide round whose goal is not used up by the awaiting entries
\* accepts an entry that an earlier round rejected.
C39_RejectedAreReconsidered == [][C39_Step]_vars

-----------------------------------------------------------------------------
(* Every collected proposal is answered (SpecProposals) *)

\* How many answers the proposal collection owes for `id`: its awaiting
\* entries and the Accept and Reject items of its feedback stream.
Owed(id) ==
    Cardinality({i \in 1..Len(proposals.awaiting) : proposals.awaiting[i].id = id})
        + Cardinality({i \in 1..Len(p_feedback) :
                          /\ p_feedback[i].action \in {"Accept", "Reject"}
                          /\ p_feedback[i].id = id})

\* The answers the feedback handler has just sent for `id`.
FeedbackAnswers(id) ==
    IF last.op # "proposal_feedback" THEN 0
    ELSE Cardinality({i \in 1..Len(proposal_channel) :
                         /\ proposal_channel[i].action \in {"AcceptProposal", "RejectProposal"}
                         /\ proposal_channel[i].id = id})

C36_Step ==
    \A id \in ProposalIds :
        /\ last'.op = "proposal_feedback" /\ Head(p_feedback).action # "Decide" =>
              Owed(id)' = Owed(id) - FeedbackAnswers(id)'
        /\ last'.op \in {"proposal_feedback", "proposal_timer"} => Owed(id)' <= Owed(id)

\* C36: with a finite collect_period every entry of the proposal collection
\* is answered, by one AcceptProposal or RejectProposal: an answer is sent
\* for every entry that waits, and each answer takes one off what is owed.
C36_EveryProposalAnswered ==
    /\ [][C36_Step]_vars
    /\ \A id \in ProposalIds :
          (Owed(id) > 0 /\ proposals.collect_period = "finite") ~> (FeedbackAnswers(id) = 1)

\* Two proposals were collected and the decide round after the collect
\* period has answered the one it did not choose.
C36_Witness ==
    /\ last.op = "proposal_feedback"
    /\ proposals.collect_period = "finite"
    /\ Len(proposals.rejected) = 1
    /\ Len(proposal_channel) = 1
    /\ proposal_channel[1].action = "RejectProposal"

====
